---- MODULE Spec2Model ----
(***************************************************************************)
(* The segment upload pipeline of the storage client: one unfinished       *)
(* upload segment, the lifecycle controller thread that retrieves,         *)
(* encodes, encrypts and dispatches it, the workers of the pool, and the   *)
(* cleanup that every upload attempt ends with.                            *)
(*                                                                         *)
(* Thread 0 is the lifecycle controller (retrieveDataAndDispatchSegment);  *)
(* thread w in 1..NumWorkers is the upload thread of worker w.             *)
(* Slot indices are 0-based as in the Go code; memory is counted in        *)
(* sectors (SectorSize == 1).                                              *)
(***************************************************************************)
EXTENDS Integers, Sequences, FiniteSets, TLC

\* ------------------------------------------------------------------ bounds
NumSlots == 2
MinSectors == 1
NumWorkers == 2
IntBits == 4
MaxFails == 1
MaxCeiling == 3
MaxCalls == 5
MaxSlotIndex == 2
MaxListLen == 3
MaxLogicalSectors == 2
MaxByte == 1
MaxHosts == 2
MaxFund == 3
MaxDisrupts == 3

\* ------------------------------------------------------- program constants
SectorSize == 1
FileSectorSize == SectorSize

Slots == 0 .. (NumSlots - 1)
Workers == 1 .. NumWorkers
Threads == 0 .. NumWorkers
LifecycleThread == 0
SegID == "seg"

\* ------------------------------------------------------ machine integers
MaxInt == 2 ^ (IntBits - 1) - 1
RandInts == 0 .. MaxInt
WrapInt(x) == ((x + 2 ^ (IntBits - 1)) % (2 ^ IntBits)) - 2 ^ (IntBits - 1)
GoRem(a, n) == IF a >= 0 THEN a % n ELSE 0 - ((0 - a) % n)

\* ---------------------------------------------------------------- helpers
RECURSIVE CountTrue(_, _)
CountTrue(f, n) ==
    IF n = 0 THEN 0
    ELSE CountTrue(f, n - 1) + (IF f[n - 1] THEN 1 ELSE 0)

SeqToSet(s) == { s[k] : k \in 1 .. Len(s) }

RECURSIVE SeqOfSet(_)
SeqOfSet(S) ==
    IF S = {} THEN << >>
    ELSE LET m == CHOOSE x \in S : \A y \in S : x <= y
         IN <<m>> \o SeqOfSet(S \ {m})

VARIABLES
    seg,             \* the unfinishedUploadSegment
    sectorIndexMap,  \* worker -> sector indices it was asked to upload
    uploadChan,      \* worker -> a signal is pending on its upload channel
    wstate,          \* worker -> "fresh" | "standby" | "done" (no longer remaining)
    wwork,           \* worker -> the sectors it has taken and not yet uploaded
    uploadFails,     \* number of uploads that have failed
    workerPool,      \* sc.workerPool
    pendingSegments, \* sc.uploadHeap.pendingSegments
    memReturned,     \* bytes given back to sc.memoryManager for the segment
    mm,              \* the memory manager: ceiling, available budget, totals
    file,            \* the segment's fileEntry: closes, stuck flag, dir updates
    pendingDeletes,  \* number of delete calls made on pendingSegments
    stuckChan,       \* paths received by the stuck loop
    stopped,         \* sc.tm.StopChan() is closed
    crashed,         \* the process ended in a runtime panic
    pc,              \* thread -> position
    cl,              \* thread -> locals of cleanupUploadSegment
    ra,              \* thread -> locals of the assignment round
    lc,              \* locals of retrieveDataAndDispatchSegment
    fnIn,            \* input of the function under test (function harnesses)
    fnOut            \* its result

vars == << seg, sectorIndexMap, uploadChan, wstate, wwork, uploadFails, workerPool,
           pendingSegments, memReturned, file, pendingDeletes, stuckChan, stopped, crashed,
           pc, cl, ra, lc, fnIn, fnOut, mm >>

\* ------------------------------------------------------- pure functions
\* Bytes reserved for a segment: the erasure-coding memory plus one sector
\* per sector slot.
MemoryNeeded(minSectors, allSectors) ==
    FileSectorSize * minSectors + SectorSize * allSectors

\* RemoteRepairDownloadThreshold as the fraction ThresholdNum / ThresholdDen.
ThresholdNum == 1
ThresholdDen == 10

\* IsSegmentUploadComplete with the second test of sectorsUploadingNum left out.
IsSegmentUploadComplete_IgnoreUploading(uc) ==
    \/ uc.sectorsCompletedNum = uc.sectorsAllNeedNum /\ uc.sectorsUploadingNum = 0
    \/ uc.workersRemain = 0

IsSegmentUploadComplete(uc) ==
    IF uc.sectorsCompletedNum = uc.sectorsAllNeedNum /\ uc.sectorsUploadingNum = 0
    THEN TRUE
    ELSE IF uc.workersRemain = 0 /\ uc.sectorsUploadingNum = 0
    THEN TRUE
    ELSE FALSE

\* needDownload of retrieveLogicalSegmentData; int() truncates the product.
NeedDownload(uc) ==
    LET numRedundantSectors == uc.sectorsAllNeedNum - uc.sectorsMinNeedNum
        minMissingSectorsToDownload ==
            (numRedundantSectors * ThresholdNum) \div ThresholdDen
    IN uc.sectorsCompletedNum + minMissingSectorsToDownload < uc.sectorsAllNeedNum

RetrieveLogicalPath_AlwaysDownload(uc, hasLocalPath, openOk, readOk) ==
    IF ~hasLocalPath \/ ~openOk \/ ~readOk THEN "download" ELSE "disk"

\* The way retrieveLogicalSegmentData goes: "disk", "download" or "error".
RetrieveLogicalPath(uc, hasLocalPath, openOk, readOk) ==
    IF ~hasLocalPath /\ NeedDownload(uc) THEN "download"
    ELSE IF ~hasLocalPath THEN "error"
    ELSE IF ~openOk /\ NeedDownload(uc) THEN "download"
    ELSE IF ~openOk THEN "error"
    ELSE IF ~readOk /\ NeedDownload(uc) THEN "download"
    ELSE IF ~readOk THEN "error"
    ELSE "disk"

\* successfulRepair of updateUploadSegmentStuckStatus:
\* (1 - threshold) * sectorsNeedNum <= sectorsCompleteNum.
SuccessfulRepair_Strict(sectorsNeedNum, sectorsCompleteNum) ==
    (ThresholdDen - ThresholdNum) * sectorsNeedNum < ThresholdDen * sectorsCompleteNum

SuccessfulRepair(sectorsNeedNum, sectorsCompleteNum) ==
    (ThresholdDen - ThresholdNum) * sectorsNeedNum <= ThresholdDen * sectorsCompleteNum

\* The locked loop of cleanupUploadSegment from slot i on. acc carries the
\* slots, the physical data, sectorsAvailable, memoryReleased and whether an
\* index ran out of range.
RECURSIVE TrimSlots_KeepOneMore(_, _, _)
TrimSlots_KeepOneMore(workersRemain, i, acc) ==
    IF i >= NumSlots \/ acc.panic THEN acc
    ELSE IF acc.slots[i] THEN TrimSlots_KeepOneMore(workersRemain, i + 1, acc)
    ELSE IF acc.avail > workersRemain
    THEN IF i + 1 > Len(acc.physical)
         THEN [acc EXCEPT !.panic = TRUE]
         ELSE TrimSlots_KeepOneMore(workersRemain, i + 1,
                  [acc EXCEPT !.mem = @ + SectorSize,
                              !.physical[i + 1] = "nil",
                              !.slots[i] = TRUE])
    ELSE TrimSlots_KeepOneMore(workersRemain, i + 1, [acc EXCEPT !.avail = @ + 1])

RECURSIVE TrimSlots(_, _, _)
TrimSlots(workersRemain, i, acc) ==
    IF i >= NumSlots \/ acc.panic THEN acc
    ELSE IF acc.slots[i] THEN TrimSlots(workersRemain, i + 1, acc)
    ELSE IF acc.avail >= workersRemain
    THEN IF i + 1 > Len(acc.physical)
         THEN [acc EXCEPT !.panic = TRUE]
         ELSE TrimSlots(workersRemain, i + 1,
                  [acc EXCEPT !.mem = @ + SectorSize,
                              !.physical[i + 1] = "nil",
                              !.slots[i] = TRUE])
    ELSE TrimSlots(workersRemain, i + 1, [acc EXCEPT !.avail = @ + 1])

\* ------------------------------------------------------------------ Init
NoCleanup == [mem |-> 0, complete |-> FALSE, rel |-> FALSE]
NoRound == [workers |-> << >>, i |-> 0, pick |-> 0, ready |-> {}, ret |-> "none"]

NewSegment(slots0, stuck, stuckRepair) ==
    [ sectorSlotsStatus   |-> slots0,
      sectorsCompletedNum |-> CountTrue(slots0, NumSlots),
      sectorsUploadingNum |-> 0,
      sectorsMinNeedNum   |-> MinSectors,
      sectorsAllNeedNum   |-> NumSlots,
      memoryNeeded        |-> MemoryNeeded(MinSectors, NumSlots),
      memoryReleased      |-> 0,
      stuck               |-> stuck,
      stuckRepair         |-> stuckRepair,
      logicalSegmentData  |-> "nil",
      physicalSegmentData |-> [k \in 1 .. NumSlots |-> "nil"],
      released            |-> FALSE,
      workersRemain       |-> 0,
      workerBackups       |-> << >> ]

\* No memory manager is part of the run: the segment's returns are counted
\* in memReturned.
NoManager == [base |-> 0, available |-> 0, granted |-> 0, returned |-> 0, calls |-> 0]

InitShared ==
    /\ sectorIndexMap = [w \in Workers |-> << >>]
    /\ uploadChan = [w \in Workers |-> FALSE]
    /\ wstate = [w \in Workers |-> "fresh"]
    /\ wwork = [w \in Workers |-> << >>]
    /\ uploadFails = 0
    /\ memReturned = 0
    /\ file = [closes |-> 0, stuck |-> "unset", dirUpdates |-> 0]
    /\ pendingDeletes = 0
    /\ stuckChan = 0
    /\ stopped = FALSE
    /\ crashed = FALSE
    /\ cl = [t \in Threads |-> NoCleanup]
    /\ ra = [t \in Threads |-> NoRound]
    /\ lc = [ecm |-> 0, scm |-> 0, err |-> "none"]

\* A segment is created for a (file, index) pair that needs work: at least
\* one slot is free; the stuck loop repairs only segments that are stuck.
InitSegment ==
    /\ \E slots0 \in [Slots -> BOOLEAN], stuck \in BOOLEAN, stuckRepair \in BOOLEAN :
          /\ \E i \in Slots : ~slots0[i]
          /\ stuckRepair => stuck
          /\ seg = NewSegment(slots0, stuck, stuckRepair)
    /\ \E n \in 0 .. NumWorkers : workerPool = 1 .. n
    /\ pc = [t \in Threads |-> IF t = LifecycleThread THEN "admit" ELSE "idle"]
    /\ fnIn = [fn |-> "none"]
    /\ fnOut = [fn |-> "none"]

Init ==
    /\ InitShared
    /\ InitSegment
    /\ pendingSegments = {}
    /\ mm = NoManager

\* ------------------------------------------------------------ bookkeeping
Goto(t, label) == pc' = [pc EXCEPT ![t] = label]

workerVars == << sectorIndexMap, uploadChan, wstate, wwork, uploadFails >>
releaseVars == << pendingSegments, file, pendingDeletes, stuckChan >>
envVars == << workerPool, stopped, fnIn, fnOut, mm >>

\* A runtime panic (index out of range, integer divide by zero) ends the
\* process: nothing moves afterwards.
Panic ==
    /\ crashed' = TRUE
    /\ UNCHANGED << seg, workerVars, releaseVars, envVars, memReturned, pc, cl, ra, lc >>

\* sc.memoryManager.Return(n)
Return(n) == memReturned' = memReturned + n

\* --------------------------------------- retrieveDataAndDispatchSegment
Admit_RejectRunsCleanup ==
    /\ ~crashed /\ pc[LifecycleThread] = "admit"
    /\ IF stopped
       THEN /\ Goto(LifecycleThread, "c_lock")
            /\ UNCHANGED lc
       ELSE /\ lc' = [ecm |-> FileSectorSize * seg.sectorsMinNeedNum,
                      scm |-> SectorSize * CountTrue(seg.sectorSlotsStatus, NumSlots),
                      err |-> "none"]
            /\ Goto(LifecycleThread, "retrieve")
    /\ UNCHANGED << seg, workerVars, releaseVars, envVars, memReturned, crashed, cl, ra >>

\* sc.tm.Add(), then the memory sums taken before the retrieval.
Admit ==
    /\ ~crashed /\ pc[LifecycleThread] = "admit"
    /\ IF stopped
       THEN /\ Goto(LifecycleThread, "rejected")
            /\ UNCHANGED lc
       ELSE /\ lc' = [ecm |-> FileSectorSize * seg.sectorsMinNeedNum,
                      scm |-> SectorSize * CountTrue(seg.sectorSlotsStatus, NumSlots),
                      err |-> "none"]
            /\ Goto(LifecycleThread, "retrieve")
    /\ UNCHANGED << seg, workerVars, releaseVars, envVars, memReturned, crashed, cl, ra >>

\* The error branch after retrieveLogicalSegmentData. lc.err keeps which
\* error, if any, ended the attempt.
RetrieveFailed_Dispatches ==
    /\ seg' = [seg EXCEPT !.logicalSegmentData = "nil",
                          !.workersRemain = 0,
                          !.memoryReleased = @ + lc.ecm + lc.scm]
    /\ Return(lc.ecm + lc.scm)
    /\ lc' = [lc EXCEPT !.err = "retrieve"]
    /\ Goto(LifecycleThread, "dispatch")

RetrieveFailed ==
    /\ seg' = [seg EXCEPT !.logicalSegmentData = "nil",
                          !.workersRemain = 0,
                          !.memoryReleased = @ + lc.ecm + lc.scm]
    /\ Return(lc.ecm + lc.scm)
    /\ lc' = [lc EXCEPT !.err = "retrieve"]
    /\ Goto(LifecycleThread, "c_lock")

Retrieve ==
    /\ ~crashed /\ pc[LifecycleThread] = "retrieve"
    /\ \E hasLocalPath \in BOOLEAN, openOk \in BOOLEAN, readOk \in BOOLEAN :
          LET way == RetrieveLogicalPath(seg, hasLocalPath, openOk, readOk)
          IN  CASE way = "disk" ->
                     /\ seg' = [seg EXCEPT !.logicalSegmentData = "disk"]
                     /\ Goto(LifecycleThread, "encode")
                     /\ UNCHANGED << memReturned, lc >>
                [] way = "download" ->
                     /\ Goto(LifecycleThread, "download")
                     /\ UNCHANGED << seg, memReturned, lc >>
                [] OTHER -> RetrieveFailed
    /\ UNCHANGED << workerVars, releaseVars, envVars, crashed, cl, ra >>

\* downloadLogicalSegmentData: the download completes, with or without an error.
DownloadDone ==
    /\ ~crashed /\ pc[LifecycleThread] = "download"
    /\ \E ok \in BOOLEAN :
          IF ok
          THEN /\ seg' = [seg EXCEPT !.logicalSegmentData = "download"]
               /\ Goto(LifecycleThread, "encode")
               /\ UNCHANGED << memReturned, lc >>
          ELSE RetrieveFailed
    /\ UNCHANGED << workerVars, releaseVars, envVars, crashed, cl, ra >>

DownloadInterrupted_IgnoresStop ==
    /\ ~crashed /\ pc[LifecycleThread] = "download"
    /\ ~stopped
    /\ RetrieveFailed
    /\ UNCHANGED << workerVars, releaseVars, envVars, crashed, cl, ra >>

\* downloadLogicalSegmentData: the wait is ended by the stop channel.
DownloadInterrupted ==
    /\ ~crashed /\ pc[LifecycleThread] = "download"
    /\ stopped
    /\ RetrieveFailed
    /\ UNCHANGED << workerVars, releaseVars, envVars, crashed, cl, ra >>

\* ErasureCode().Encode, its error branch, the return of the erasure-coding
\* memory and the sanity check on the number of physical sectors.
EncodeResult(uc, err, outLen, ecm, scm) ==
    IF err
    THEN [ uc |-> [uc EXCEPT !.physicalSegmentData = [k \in 1 .. outLen |-> "nil"],
                             !.workersRemain = 0,
                             !.memoryReleased = @ + scm],
           returned |-> scm,
           err |-> "encode",
           next |-> "c_lock" ]
    ELSE [ uc |-> [uc EXCEPT !.physicalSegmentData = [k \in 1 .. outLen |-> "plain"],
                             !.logicalSegmentData = "nil",
                             !.memoryReleased = @ + ecm],
           returned |-> ecm,
           err |-> IF outLen < NumSlots THEN "sanity" ELSE "none",
           next |-> IF outLen < NumSlots THEN "c_lock" ELSE "encrypt" ]

Encode ==
    /\ ~crashed /\ pc[LifecycleThread] = "encode"
    /\ \E err \in BOOLEAN, outLen \in 0 .. NumSlots :
          LET res == EncodeResult(seg, err, outLen, lc.ecm, lc.scm)
          IN  /\ seg' = res.uc
              /\ Return(res.returned)
              /\ lc' = [lc EXCEPT !.err = res.err]
              /\ Goto(LifecycleThread, res.next)
    /\ UNCHANGED << workerVars, releaseVars, envVars, crashed, cl, ra >>

\* The encryption loop: a claimed slot loses its sector, a free slot gets
\* the cipher text unless its encryption failed (failed), which leaves the
\* sector as it was; then the memory of the claimed sectors is released.
EncryptSectors_DropFailed(uc, failed, scm) ==
    [uc EXCEPT
        !.physicalSegmentData =
            [k \in 1 .. Len(@) |->
                IF k - 1 \in Slots
                THEN IF uc.sectorSlotsStatus[k - 1] \/ (k - 1) \in failed THEN "nil"
                     ELSE "cipher"
                ELSE @[k]],
        !.memoryReleased = IF scm > 0 THEN @ + scm ELSE @]

EncryptSectors_KeepsClaimed(uc, failed, scm) ==
    [uc EXCEPT
        !.physicalSegmentData =
            [k \in 1 .. Len(@) |->
                IF k - 1 \in Slots
                THEN IF uc.sectorSlotsStatus[k - 1] \/ (k - 1) \in failed THEN @[k]
                     ELSE "cipher"
                ELSE @[k]],
        !.memoryReleased = IF scm > 0 THEN @ + scm ELSE @]

EncryptSectors(uc, failed, scm) ==
    [uc EXCEPT
        !.physicalSegmentData =
            [k \in 1 .. Len(@) |->
                IF k - 1 \in Slots
                THEN IF uc.sectorSlotsStatus[k - 1] THEN "nil"
                     ELSE IF (k - 1) \in failed THEN @[k]
                     ELSE "cipher"
                ELSE @[k]],
        !.memoryReleased = IF scm > 0 THEN @ + scm ELSE @]

Encrypt ==
    /\ ~crashed /\ pc[LifecycleThread] = "encrypt"
    /\ \E failed \in SUBSET { i \in Slots : ~seg.sectorSlotsStatus[i] } :
          /\ seg' = EncryptSectors(seg, failed, lc.scm)
          /\ lc' = [lc EXCEPT !.err = IF failed = {} THEN "none" ELSE "encrypt"]
    /\ Return(IF lc.scm > 0 THEN lc.scm ELSE 0)
    /\ Goto(LifecycleThread, "dispatch")
    /\ UNCHANGED << workerVars, releaseVars, envVars, crashed, cl, ra >>

\* The bytes handed to ErasureCode().Encode: a slice made with length
\* len(logicalSegmentData) * SectorSize, which make fills with zero bytes,
\* to which every logical sector is appended in order.
RECURSIVE AppendSectors(_, _)
AppendSectors(bytes, sectors) ==
    IF sectors = << >> THEN bytes
    ELSE AppendSectors(bytes \o Head(sectors), Tail(sectors))

SegmentBytes(logicalSegmentData) ==
    AppendSectors([k \in 1 .. Len(logicalSegmentData) * SectorSize |-> 0],
                  logicalSegmentData)

\* ------------------------------------------------------- dispatchSegment
PendingAdd(pending, id) ==
    IF id \in pending THEN pending ELSE pending \cup {id}

DispatchPending ==
    /\ ~crashed /\ pc[LifecycleThread] = "dispatch"
    /\ pendingSegments' = PendingAdd(pendingSegments, SegID)
    /\ Goto(LifecycleThread, "d_assign")
    /\ UNCHANGED << seg, workerVars, file, pendingDeletes, stuckChan, envVars,
                    memReturned, crashed, cl, ra, lc >>

\* workersRemain += len(sc.workerPool) and the snapshot of the pool. The map
\* is walked in an arbitrary order; the random start offset of the round
\* makes the order immaterial, so the snapshot is taken in worker order.
DispatchSnapshot_NoCount(uc, pool) ==
    [ uc |-> uc, workers |-> SeqOfSet(pool) ]

DispatchSnapshot(uc, pool) ==
    [ uc |-> [uc EXCEPT !.workersRemain = @ + Cardinality(pool)],
      workers |-> SeqOfSet(pool) ]

DispatchAssign ==
    /\ ~crashed /\ pc[LifecycleThread] = "d_assign"
    /\ LET snap == DispatchSnapshot(seg, workerPool)
       IN  /\ seg' = snap.uc
           /\ ra' = [ra EXCEPT ![LifecycleThread] =
                        [workers |-> snap.workers, i |-> 0, pick |-> 0, ready |-> {}, ret |-> "d_signal"]]
    /\ Goto(LifecycleThread, "ra_read")
    /\ UNCHANGED << workerVars, releaseVars, envVars, memReturned, crashed, cl, lc >>

\* signalUploadChan on every worker of the round: a non-blocking send.
Signal(chan, workers) ==
    [w \in Workers |-> chan[w] \/ w \in SeqToSet(workers)]

DispatchSignal ==
    /\ ~crashed /\ pc[LifecycleThread] = "d_signal"
    /\ uploadChan' = Signal(uploadChan, ra[LifecycleThread].workers)
    /\ ra' = [ra EXCEPT ![LifecycleThread] = NoRound]
    /\ Goto(LifecycleThread, "c_lock")
    /\ UNCHANGED << seg, sectorIndexMap, wstate, wwork, uploadFails, releaseVars, envVars,
                    memReturned, crashed, cl, lc >>

\* ------------------------------------------- randomAssignSectorTaskToWorker
\* workerIndex := (i + rand.Int()) % length, in machine integers.
WorkerIndex(i, rnd, length) == GoRem(WrapInt(i + rnd), length)

\* One pass of the loop body for slot i whose status was read as s: the
\* index computation divides by zero on an empty worker list, the worker is
\* looked up only when the slot is free, and it gets the slot only if ready.
AssignOutcome_IgnoreReady(s, workers, i, rnd, rdy) ==
    IF Len(workers) = 0 THEN [kind |-> "panic", w |-> 0]
    ELSE LET workerIndex == WorkerIndex(i, rnd, Len(workers))
         IN  IF s THEN [kind |-> "skip", w |-> 0]
             ELSE IF workerIndex < 0 \/ workerIndex >= Len(workers)
             THEN [kind |-> "panic", w |-> 0]
             ELSE [kind |-> "claim", w |-> workers[workerIndex + 1]]

AssignOutcome(s, workers, i, rnd, rdy) ==
    IF Len(workers) = 0 THEN [kind |-> "panic", w |-> 0]
    ELSE LET workerIndex == WorkerIndex(i, rnd, Len(workers))
         IN  IF s THEN [kind |-> "skip", w |-> 0]
             ELSE IF workerIndex < 0 \/ workerIndex >= Len(workers)
             THEN [kind |-> "panic", w |-> 0]
             ELSE IF workers[workerIndex + 1] \in rdy
             THEN [kind |-> "claim", w |-> workers[workerIndex + 1]]
             ELSE [kind |-> "skip", w |-> 0]

\* The loop moves on to slot i + 1, or the round is over.
NextSlot(t) ==
    /\ ra' = [ra EXCEPT ![t].i = @ + 1, ![t].pick = 0, ![t].ready = {}]
    /\ Goto(t, IF ra[t].i + 1 >= NumSlots THEN ra[t].ret ELSE "ra_read")

\* The slot status is read and the worker chosen. isReady is answered by the
\* worker's contract and cooldown state: rdy is the set of the round's
\* workers that are ready at this moment; it is kept in ra[t].ready while
\* the claim is pending. The round holds no segment lock, so the write of
\* the claim is a later step.
RandomAssignRead(t) ==
    /\ ~crashed /\ pc[t] = "ra_read"
    /\ \E rnd \in RandInts, rdy \in SUBSET SeqToSet(ra[t].workers) :
          LET out == AssignOutcome(seg.sectorSlotsStatus[ra[t].i], ra[t].workers,
                                   ra[t].i, rnd, rdy)
          IN  CASE out.kind = "panic" -> Panic
                [] out.kind = "claim" ->
                     /\ ra' = [ra EXCEPT ![t].pick = out.w, ![t].ready = rdy]
                     /\ Goto(t, "ra_write")
                     /\ UNCHANGED << seg, workerVars, releaseVars, envVars,
                                     memReturned, crashed, cl, lc >>
                [] OTHER ->
                     /\ NextSlot(t)
                     /\ UNCHANGED << seg, workerVars, releaseVars, envVars,
                                     memReturned, crashed, cl, lc >>

\* The chosen worker's index list gets slot i and the slot is marked used.
ClaimSlot_NoMark(uc, map, w, i) ==
    [ uc |-> uc,
      map |-> [map EXCEPT ![w] = Append(@, i)] ]

ClaimSlot(uc, map, w, i) ==
    [ uc |-> [uc EXCEPT !.sectorSlotsStatus[i] = TRUE],
      map |-> [map EXCEPT ![w] = Append(@, i)] ]

RandomAssignWrite(t) ==
    /\ ~crashed /\ pc[t] = "ra_write"
    /\ LET res == ClaimSlot(seg, sectorIndexMap, ra[t].pick, ra[t].i)
       IN  /\ seg' = res.uc
           /\ sectorIndexMap' = res.map
    /\ NextSlot(t)
    /\ UNCHANGED << uploadChan, wstate, wwork, uploadFails, releaseVars, envVars,
                    memReturned, crashed, cl, lc >>

\* ----------------------------------------------------- notifyBackupWorkers
NotifySwap(t) ==
    /\ ~crashed /\ pc[t] = "n_swap"
    /\ ra' = [ra EXCEPT ![t] =
                 [workers |-> seg.workerBackups, i |-> 0, pick |-> 0, ready |-> {}, ret |-> "n_signal"]]
    /\ seg' = [seg EXCEPT !.workerBackups = << >>]
    /\ Goto(t, "ra_read")
    /\ UNCHANGED << workerVars, releaseVars, envVars, memReturned, crashed, cl, lc >>

\* ---------------------------------------------------- cleanupUploadSegment
\* The part of cleanupUploadSegment that runs under the segment lock.
\* CleanupLocked without the test of the released flag.
CleanupLocked_NoReleasedTest(uc) ==
    LET acc == TrimSlots(uc.workersRemain, 0,
                   [slots |-> uc.sectorSlotsStatus, physical |-> uc.physicalSegmentData,
                    avail |-> 0, mem |-> 0, panic |-> FALSE])
        trimmed == [uc EXCEPT !.sectorSlotsStatus = acc.slots,
                              !.physicalSegmentData = acc.physical]
        segmentComplete == IsSegmentUploadComplete(trimmed)
    IN  [ uc |-> [trimmed EXCEPT
                     !.released = IF segmentComplete THEN TRUE ELSE @,
                     !.memoryReleased = @ + acc.mem],
          sectorsAvailable |-> acc.avail,
          memoryReleased |-> acc.mem,
          segmentComplete |-> segmentComplete,
          released |-> FALSE,
          panic |-> acc.panic ]

CleanupLocked_CountBeforeTrim(uc) ==
    LET acc == TrimSlots(uc.workersRemain, 0,
                   [slots |-> uc.sectorSlotsStatus, physical |-> uc.physicalSegmentData,
                    avail |-> 0, mem |-> 0, panic |-> FALSE])
        trimmed == [uc EXCEPT !.sectorSlotsStatus = acc.slots,
                              !.physicalSegmentData = acc.physical]
        segmentComplete == IsSegmentUploadComplete(trimmed)
        released == uc.released
    IN  [ uc |-> [trimmed EXCEPT
                     !.released = IF segmentComplete /\ ~released THEN TRUE ELSE @,
                     !.memoryReleased = @ + acc.mem],
          sectorsAvailable |-> Cardinality({ i \in Slots : ~uc.sectorSlotsStatus[i] }),
          memoryReleased |-> acc.mem,
          segmentComplete |-> segmentComplete,
          released |-> released,
          panic |-> acc.panic ]

CleanupLocked(uc) ==
    LET acc == TrimSlots(uc.workersRemain, 0,
                   [slots |-> uc.sectorSlotsStatus, physical |-> uc.physicalSegmentData,
                    avail |-> 0, mem |-> 0, panic |-> FALSE])
        trimmed == [uc EXCEPT !.sectorSlotsStatus = acc.slots,
                              !.physicalSegmentData = acc.physical]
        segmentComplete == IsSegmentUploadComplete(trimmed)
        released == uc.released
    IN  [ uc |-> [trimmed EXCEPT
                     !.released = IF segmentComplete /\ ~released THEN TRUE ELSE @,
                     !.memoryReleased = @ + acc.mem],
          sectorsAvailable |-> acc.avail,
          memoryReleased |-> acc.mem,
          segmentComplete |-> segmentComplete,
          released |-> released,
          panic |-> acc.panic ]

\* The call returns to its caller (the sanity check before it only logs):
\* the lifecycle controller is done, a worker goes on with the sectors it
\* has taken.
CleanupEnd(t) ==
    /\ cl' = [cl EXCEPT ![t] = NoCleanup]
    /\ IF t = LifecycleThread THEN Goto(t, "done")
       ELSE IF wwork[t] # << >> THEN Goto(t, "uploading")
       ELSE Goto(t, "idle")

CleanupAfterNotify_NoReturn(t, mem, complete, rel) ==
    /\ Return(0)
    /\ IF complete /\ ~rel
       THEN /\ Goto(t, "c_stuck")
            /\ cl' = [cl EXCEPT ![t] = [mem |-> mem, complete |-> complete, rel |-> rel]]
       ELSE CleanupEnd(t)

\* What follows the notification of the backup workers: the trimmed memory
\* goes back to the memory manager, then the release if this call is the
\* one that set the released flag.
CleanupAfterNotify(t, mem, complete, rel) ==
    /\ Return(IF mem > 0 THEN mem ELSE 0)
    /\ IF complete /\ ~rel
       THEN /\ Goto(t, "c_stuck")
            /\ cl' = [cl EXCEPT ![t] = [mem |-> mem, complete |-> complete, rel |-> rel]]
       ELSE CleanupEnd(t)

CleanupLock(t) ==
    /\ ~crashed /\ pc[t] = "c_lock"
    /\ LET res == CleanupLocked(seg)
       IN  IF res.panic THEN Panic
           ELSE /\ seg' = res.uc
                /\ IF res.sectorsAvailable > 0
                   THEN /\ cl' = [cl EXCEPT ![t] = [mem |-> res.memoryReleased,
                                                    complete |-> res.segmentComplete,
                                                    rel |-> res.released]]
                        /\ Goto(t, "n_swap")
                        /\ UNCHANGED memReturned
                   ELSE CleanupAfterNotify(t, res.memoryReleased,
                                           res.segmentComplete, res.released)
                /\ UNCHANGED << workerVars, releaseVars, envVars, crashed, ra, lc >>

NotifySignal(t) ==
    /\ ~crashed /\ pc[t] = "n_signal"
    /\ uploadChan' = Signal(uploadChan, ra[t].workers)
    /\ ra' = [ra EXCEPT ![t] = NoRound]
    /\ CleanupAfterNotify(t, cl[t].mem, cl[t].complete, cl[t].rel)
    /\ UNCHANGED << seg, sectorIndexMap, wstate, wwork, uploadFails, releaseVars,
                    envVars, crashed, lc >>

\* updateUploadSegmentStuckStatus up to the send on stuckSegmentSuccess.
\* result.way: "return" (unsuccessful and offline), "send" or "done".
StuckUpdate_IgnoreStuckRepair(uc, f, offline) ==
    LET successfulRepair == SuccessfulRepair(uc.sectorsAllNeedNum, uc.sectorsCompletedNum)
    IN  IF ~successfulRepair /\ offline
        THEN [file |-> f, way |-> "return"]
        ELSE [ file |-> [f EXCEPT !.stuck = IF successfulRepair THEN "no" ELSE "yes",
                                  !.dirUpdates = @ + 1],
               way |-> IF uc.stuck /\ successfulRepair THEN "send" ELSE "done" ]

StuckUpdate_IgnoreOffline(uc, f, offline) ==
    LET successfulRepair == SuccessfulRepair(uc.sectorsAllNeedNum, uc.sectorsCompletedNum)
    IN  [ file |-> [f EXCEPT !.stuck = IF successfulRepair THEN "no" ELSE "yes",
                             !.dirUpdates = @ + 1],
          way |-> IF uc.stuck /\ successfulRepair /\ uc.stuckRepair
                  THEN "send" ELSE "done" ]

StuckUpdate(uc, f, offline) ==
    LET successfulRepair == SuccessfulRepair(uc.sectorsAllNeedNum, uc.sectorsCompletedNum)
    IN  IF ~successfulRepair /\ offline
        THEN [file |-> f, way |-> "return"]
        ELSE [ file |-> [f EXCEPT !.stuck = IF successfulRepair THEN "no" ELSE "yes",
                                  !.dirUpdates = @ + 1],
               way |-> IF uc.stuck /\ successfulRepair /\ uc.stuckRepair
                       THEN "send" ELSE "done" ]

CleanupStuck(t) ==
    /\ ~crashed /\ pc[t] = "c_stuck"
    /\ \E online \in BOOLEAN :
          LET res == StuckUpdate(seg, file, stopped \/ ~online)
          IN  /\ file' = res.file
              /\ Goto(t, IF res.way = "send" THEN "c_send" ELSE "c_close")
    /\ UNCHANGED << seg, workerVars, pendingSegments, pendingDeletes, stuckChan,
                    envVars, memReturned, crashed, cl, ra, lc >>

\* The stuck loop receives the path.
StuckSend(t) ==
    /\ ~crashed /\ pc[t] = "c_send"
    /\ stuckChan' = stuckChan + 1
    /\ Goto(t, "c_close")
    /\ UNCHANGED << seg, workerVars, pendingSegments, file, pendingDeletes,
                    envVars, memReturned, crashed, cl, ra, lc >>

\* The select takes the stop channel instead.
StuckSendStopped(t) ==
    /\ ~crashed /\ pc[t] = "c_send"
    /\ stopped
    /\ Goto(t, "c_close")
    /\ UNCHANGED << seg, workerVars, releaseVars, envVars, memReturned,
                    crashed, cl, ra, lc >>

\* The file entry is closed and the segment id deleted from the pending set.
CleanupClose(t) ==
    /\ ~crashed /\ pc[t] = "c_close"
    /\ file' = [file EXCEPT !.closes = @ + 1]
    /\ pendingSegments' = pendingSegments \ {SegID}
    /\ pendingDeletes' = pendingDeletes + 1
    /\ CleanupEnd(t)
    /\ UNCHANGED << seg, workerVars, stuckChan, envVars, memReturned, crashed, ra, lc >>

\* ----------------------------------------------------------------- workers
\* A worker takes the sectors it has been given: they count as uploading,
\* and a worker that had not yet worked on the segment stops counting as
\* remaining.
TakeSectors(uc, st, n) ==
    [uc EXCEPT !.sectorsUploadingNum = @ + n,
               !.workersRemain = IF st \in {"fresh", "standby"} THEN @ - 1 ELSE @]

\* The worker takes the signal from its channel and finds sectors to upload.
WorkerWakeTake(w) ==
    /\ ~crashed /\ pc[w] = "idle" /\ uploadChan[w]
    /\ sectorIndexMap[w] # << >>
    /\ uploadChan' = [uploadChan EXCEPT ![w] = FALSE]
    /\ seg' = TakeSectors(seg, wstate[w], Len(sectorIndexMap[w]))
    /\ wwork' = [wwork EXCEPT ![w] = sectorIndexMap[w]]
    /\ sectorIndexMap' = [sectorIndexMap EXCEPT ![w] = << >>]
    /\ wstate' = [wstate EXCEPT ![w] = "done"]
    /\ Goto(w, "uploading")
    /\ UNCHANGED << uploadFails, releaseVars, envVars, memReturned, crashed, cl, ra, lc >>

\* It finds none and stays in reserve as a backup worker of the segment;
\* cleanup follows.
WorkerWakeStandby(w) ==
    /\ ~crashed /\ pc[w] = "idle" /\ uploadChan[w]
    /\ sectorIndexMap[w] = << >>
    /\ wstate[w] \in {"fresh", "standby"}
    /\ w \notin SeqToSet(seg.workerBackups)
    /\ uploadChan' = [uploadChan EXCEPT ![w] = FALSE]
    /\ seg' = [seg EXCEPT !.workerBackups = Append(@, w)]
    /\ wstate' = [wstate EXCEPT ![w] = "standby"]
    /\ Goto(w, "c_lock")
    /\ UNCHANGED << sectorIndexMap, wwork, uploadFails, releaseVars, envVars,
                    memReturned, crashed, cl, ra, lc >>

\* It finds none and drops the segment; cleanup follows.
WorkerWakeDrop(w) ==
    /\ ~crashed /\ pc[w] = "idle" /\ uploadChan[w]
    /\ sectorIndexMap[w] = << >>
    /\ wstate[w] \in {"fresh", "standby"}
    /\ w \notin SeqToSet(seg.workerBackups)
    /\ uploadChan' = [uploadChan EXCEPT ![w] = FALSE]
    /\ seg' = [seg EXCEPT !.workersRemain = @ - 1]
    /\ wstate' = [wstate EXCEPT ![w] = "done"]
    /\ Goto(w, "c_lock")
    /\ UNCHANGED << sectorIndexMap, wwork, uploadFails, releaseVars, envVars,
                    memReturned, crashed, cl, ra, lc >>

\* The upload of the worker's sector succeeded: the sector is complete and
\* its memory goes back to the memory manager; cleanup follows.
UploadSucceeded(uc, i) ==
    [uc EXCEPT !.sectorsUploadingNum = @ - 1,
               !.sectorsCompletedNum = @ + 1,
               !.memoryReleased = @ + SectorSize,
               !.physicalSegmentData =
                   [k \in 1 .. Len(@) |-> IF k = i + 1 THEN "nil" ELSE @[k]]]

WorkerUploadSuccess(w) ==
    /\ ~crashed /\ pc[w] = "uploading"
    /\ seg' = UploadSucceeded(seg, Head(wwork[w]))
    /\ Return(SectorSize)
    /\ wwork' = [wwork EXCEPT ![w] = Tail(@)]
    /\ Goto(w, "c_lock")
    /\ UNCHANGED << sectorIndexMap, uploadChan, wstate, uploadFails, releaseVars,
                    envVars, crashed, cl, ra, lc >>

\* The upload failed: the slot is free again; cleanup follows.
UploadFailed(uc, i) ==
    [uc EXCEPT !.sectorsUploadingNum = @ - 1,
               !.sectorSlotsStatus[i] = FALSE]

WorkerUploadFail(w) ==
    /\ ~crashed /\ pc[w] = "uploading"
    /\ uploadFails < MaxFails
    /\ seg' = UploadFailed(seg, Head(wwork[w]))
    /\ uploadFails' = uploadFails + 1
    /\ wwork' = [wwork EXCEPT ![w] = Tail(@)]
    /\ Goto(w, "c_lock")
    /\ UNCHANGED << sectorIndexMap, uploadChan, wstate, releaseVars, envVars,
                    memReturned, crashed, cl, ra, lc >>

\* ------------------------------------------------------------- environment
\* The task manager is stopped. The stop channel is looked at on admission,
\* in the download wait and in the stuck-status update; a stop at any other
\* moment is the same as a stop just before the next of these looks.
StopObserved ==
    \/ pc[LifecycleThread] \in {"admit", "download"}
    \/ \E t \in Threads : pc[t] \in {"c_stuck", "c_send"}

Stop ==
    /\ ~crashed /\ ~stopped
    /\ StopObserved
    /\ stopped' = TRUE
    /\ UNCHANGED << seg, workerVars, releaseVars, workerPool, fnIn, fnOut,
                    memReturned, crashed, pc, cl, ra, lc, mm >>

\* ------------------------------------------------------------ specification
Lifecycle ==
    \/ Admit \/ Retrieve \/ DownloadDone \/ DownloadInterrupted
    \/ Encode \/ Encrypt
    \/ DispatchPending \/ DispatchAssign \/ DispatchSignal

Cleanup(t) ==
    \/ CleanupLock(t) \/ NotifySwap(t) \/ RandomAssignRead(t) \/ RandomAssignWrite(t)
    \/ NotifySignal(t) \/ CleanupStuck(t)
    \/ StuckSend(t) \/ StuckSendStopped(t)
    \/ CleanupClose(t)

Worker(w) ==
    \/ WorkerWakeTake(w) \/ WorkerWakeStandby(w) \/ WorkerWakeDrop(w)
    \/ WorkerUploadSuccess(w) \/ WorkerUploadFail(w)

Next ==
    \/ Lifecycle
    \/ \E t \in Threads : Cleanup(t)
    \/ \E w \in Workers : Worker(w)
    \/ Stop

Spec == Init /\ [][Next]_vars

\* The lifecycle controller running alone, no worker thread scheduled: the
\* sequential path of retrieveDataAndDispatchSegment with its deferred
\* cleanupUploadSegment. With no worker running no backup worker registers
\* and nothing is uploaded, so the notification never gets to its signals
\* and the stuck loop is never sent a path.
NextLifecycle ==
    \/ Lifecycle
    \/ CleanupLock(LifecycleThread) \/ NotifySwap(LifecycleThread)
    \/ RandomAssignRead(LifecycleThread) \/ RandomAssignWrite(LifecycleThread)
    \/ CleanupStuck(LifecycleThread) \/ CleanupClose(LifecycleThread)
    \/ Stop

\* The upload heap may already list the segment as pending when it is
\* dispatched: dispatchSegment looks the id up before it adds it.
InitLifecycle ==
    /\ InitShared
    /\ InitSegment
    /\ pendingSegments \in SUBSET {SegID}
    /\ mm = NoManager

SpecLifecycle == InitLifecycle /\ [][NextLifecycle]_vars

\* The same with the one fairness the select in downloadLogicalSegmentData
\* gives: a goroutine waiting on a closed stop channel is woken and takes
\* that case. The download itself need never complete.
SpecLifecycleFair == SpecLifecycle /\ WF_vars(DownloadInterrupted)

\* ------------------------------------------------- prepareCreateContract
\* What forming a contract with one host comes to: createContract fails,
\* it succeeds and markNewlyFormedContractStats fails, it succeeds, or it
\* succeeds and the maintenance is found terminated afterwards.
HostOutcomes == {"failed", "markFailed", "formed", "formedTerminated"}

\* The loop over the random hosts. acc carries the named results err and
\* terminated, clientRemainingFund, neededContracts, the number of
\* contracts formed and whether the call ended in a panic. The log call of
\* the failure branch evaluates err.Error() on the named result err.
RECURSIVE PrepareLoop(_, _, _)
PrepareLoop(hosts, contractFund, acc) ==
    IF hosts = << >> THEN acc
    ELSE IF contractFund > acc.fund THEN [acc EXCEPT !.err = "fund"]
    ELSE IF Head(hosts) = "failed"
    THEN IF acc.err = "nil" THEN [acc EXCEPT !.panic = TRUE]
         ELSE PrepareLoop(Tail(hosts), contractFund, acc)
    ELSE IF Head(hosts) = "markFailed"
    THEN [acc EXCEPT !.fund = @ - contractFund, !.formed = @ + 1, !.err = "mark"]
    ELSE LET next == [acc EXCEPT !.fund = @ - contractFund, !.formed = @ + 1,
                                 !.needed = @ - 1]
         IN  IF next.needed <= 0 THEN next
             ELSE IF Head(hosts) = "formedTerminated"
             THEN [next EXCEPT !.terminated = TRUE]
             ELSE PrepareLoop(Tail(hosts), contractFund, next)

prepareCreateContract(hosts, contractFund, neededContracts, clientRemainingFund) ==
    PrepareLoop(hosts, contractFund,
                [err |-> "nil", terminated |-> FALSE, fund |-> clientRemainingFund,
                 needed |-> neededContracts, formed |-> 0, panic |-> FALSE])

\* ------------------------------------------------------ ContractCreateTx
\* The local DB and the state DB as ContractCreateTx finds them: no record
\* of the contract, no balance deducted since the snapshot.
NoRecords == [contract |-> FALSE, expire |-> FALSE, subs |-> 0]

\* ContractCreateTx on the outcomes of its steps. The result is the error
\* returned and what is left behind: the contract record, its expiry
\* record and the number of balance deductions not reverted. A step that
\* fails writes nothing. The variable err is assigned only by the deferred
\* recover, after which the function returns the zero values of its
\* unnamed results.
ContractCreateTx(in) ==
    IF ~in.decodeOk THEN NoRecords @@ [err |-> "decode"]
    ELSE IF ~in.checkOk THEN NoRecords @@ [err |-> "check"]
    ELSE IF ~in.storeOk THEN NoRecords @@ [err |-> "store"]
    ELSE IF ~in.storeExpireOk
    THEN [NoRecords EXCEPT !.contract = TRUE] @@ [err |-> "storeExpire"]
    ELSE IF in.panic = "clientSub"
    THEN [contract |-> TRUE, expire |-> TRUE, subs |-> 0, err |-> "nil"]
    ELSE IF in.panic = "hostSub"
    THEN [contract |-> TRUE, expire |-> TRUE, subs |-> 1, err |-> "nil"]
    ELSE [contract |-> TRUE, expire |-> TRUE, subs |-> 2, err |-> "nil"]

\* ------------------------------------------------------ CommitRevisionTx
\* CommitRevisionTx on the outcomes of its steps; the old contract and its
\* expiry record are in the local DB when GetStorageContract succeeds. The
\* test after StoreExpireStorageContract looks at errStore.
CommitRevisionTx(in) ==
    LET old == [contract |-> in.getOk, expire |-> in.getOk]
    IN  IF ~in.decodeOk THEN old @@ [err |-> "decode"]
        ELSE IF ~in.checkOk THEN old @@ [err |-> "check"]
        ELSE IF ~in.getOk THEN old @@ [err |-> "get"]
        ELSE IF ~in.storeOk
        THEN [contract |-> FALSE, expire |-> FALSE, err |-> "store"]
        ELSE [contract |-> TRUE, expire |-> in.storeExpireOk, err |-> "nil"]

\* ------------------------------------------------------- counterDisrupter
Keywords == {"a", "b"}

\* standardDisrupter.disrupt: the function registered for the keyword is
\* called, here one that always disrupts; no function, no disruption.
StandardDisrupt(registered, s) == s \in registered

\* counterDisrupter.disrupt: counter is the map from keywords to counts; a
\* keyword that is not in the map reads as 0.
CounterDisrupt(counter, registered, s) ==
    LET exist == s \in DOMAIN counter
        c == IF exist THEN counter[s] ELSE 0
    IN  [ counter |-> IF ~exist THEN (s :> c + 1) @@ counter
                      ELSE [counter EXCEPT ![s] = 1],
          ret |-> StandardDisrupt(registered, s) ]

\* The calls of disrupt one after the other on a new counterDisrupter.
RECURSIVE RunDisrupts(_, _, _)
RunDisrupts(calls, registered, acc) ==
    IF calls = << >> THEN acc
    ELSE LET res == CounterDisrupt(acc.counter, registered, Head(calls))
         IN  RunDisrupts(Tail(calls), registered,
                         [counter |-> res.counter, rets |-> Append(acc.rets, res.ret)])

\* ------------------------------------------------- the functions on their own
\* The inputs of IsSegmentUploadComplete: the counters it reads. A worker
\* that drops a segment it was never counted for takes workersRemain below 0.
CompleteInputs ==
    [ fn : {"complete"},
      sectorsCompletedNum : 0 .. NumSlots,
      sectorsAllNeedNum : {NumSlots},
      sectorsUploadingNum : 0 .. NumSlots,
      workersRemain : -1 .. NumWorkers ]

\* The inputs of one pass of the loop of randomAssignSectorTaskToWorker:
\* the slot status read, the worker list (a snapshot of the pool or a
\* swapped-out backup list), the slot index, the random number and the
\* workers that are ready.
AssignInputs ==
    [ fn : {"assign"},
      s : BOOLEAN,
      workers : { SeqOfSet(1 .. n) : n \in 0 .. NumWorkers },
      i : Slots,
      rnd : RandInts,
      rdy : SUBSET Workers ]

\* The inputs of the entry of dispatchSegment: the pending set, the
\* workersRemain the segment comes with and the worker pool.
DispatchInputs ==
    [ fn : {"dispatch"},
      pending : SUBSET {SegID, "other"},
      workersRemain : 0 .. NumWorkers,
      pool : { 1 .. n : n \in 0 .. NumWorkers } ]

\* The inputs of the locked part of cleanupUploadSegment: the slot status,
\* workersRemain, the number of physical sectors the segment holds (fewer
\* than slots after a failed encoding), the uploads in flight and the
\* released flag. A free slot holds its encrypted sector.
CleanupInputs ==
    [ fn : {"cleanup"},
      slots : [Slots -> BOOLEAN],
      workersRemain : 0 .. NumWorkers,
      physLen : 0 .. NumSlots,
      uploading : 0 .. 1,
      released : BOOLEAN ]

CleanupSegment(in) ==
    [NewSegment(in.slots, FALSE, FALSE) EXCEPT
        !.workersRemain = in.workersRemain,
        !.sectorsUploadingNum = in.uploading,
        !.released = in.released,
        !.physicalSegmentData =
            [k \in 1 .. in.physLen |-> IF in.slots[k - 1] THEN "nil" ELSE "cipher"]]

\* The inputs of updateUploadSegmentStuckStatus: the segment's counts of
\* sectors needed and completed, its stuck and stuckRepair flags, and whether
\* the client is found offline or shut down.
StuckNeeds == {NumSlots, 10}

StuckInputs ==
    { in \in [ fn : {"stuck"},
               need : StuckNeeds,
               completed : 0 .. 10,
               stuck : BOOLEAN,
               stuckRepair : BOOLEAN,
               offline : BOOLEAN ] : in.completed <= in.need }

StuckSegment(in) ==
    [NewSegment([i \in Slots |-> FALSE], in.stuck, in.stuckRepair) EXCEPT
        !.sectorsAllNeedNum = in.need,
        !.sectorsCompletedNum = in.completed]

\* The inputs of retrieveLogicalSegmentData: the segment's sector counts,
\* whether the file has a local path, opens and reads, and whether a
\* download, if one is made, completes without error.
RetrieveNeeds == {NumSlots, 10, 20}

RetrieveInputs ==
    { in \in [ fn : {"retrieve"},
               need : RetrieveNeeds,
               completed : 0 .. 20,
               hasLocalPath : BOOLEAN,
               openOk : BOOLEAN,
               readOk : BOOLEAN,
               downloadOk : BOOLEAN ] : in.completed <= in.need }

RetrieveSegment(in) ==
    [NewSegment([i \in Slots |-> FALSE], FALSE, FALSE) EXCEPT
        !.sectorsAllNeedNum = in.need,
        !.sectorsCompletedNum = in.completed]

\* What retrieveLogicalSegmentData leaves in logicalSegmentData: the bytes
\* read from disk, the buffer of a download that completed without error,
\* or nothing.
RetrieveData(way, downloadOk) ==
    IF way = "disk" THEN "disk"
    ELSE IF way = "download" /\ downloadOk THEN "download"
    ELSE "nil"

\* The inputs of the index computation of randomAssignSectorTaskToWorker:
\* a slot index, a value of rand.Int() (any non-negative machine integer)
\* and the length of a non-empty worker list.
IndexInputs ==
    [ fn : {"index"},
      i : 0 .. MaxSlotIndex,
      rnd : RandInts,
      length : 1 .. MaxListLen ]

\* The inputs of the construction of segmentBytes: the logical data, a
\* list of sectors of SectorSize bytes each.
BytesInputs ==
    [ fn : {"bytes"},
      logical : UNION { [1 .. n -> [1 .. SectorSize -> 0 .. MaxByte]] :
                           n \in 0 .. MaxLogicalSectors } ]

\* The inputs of prepareCreateContract once the random hosts are there:
\* what forming a contract with each host comes to, the fund of one
\* contract, the contracts needed and the client's remaining fund.
PrepareInputs ==
    [ fn : {"prepare"},
      hosts : UNION { [1 .. n -> HostOutcomes] : n \in 0 .. MaxHosts },
      contractFund : 1 .. 2,
      needed : 1 .. MaxHosts,
      fund : 0 .. MaxFund ]

\* The inputs of ContractCreateTx: whether each step succeeds and whether
\* one of the two balance deductions panics with a runtime error.
CreateTxInputs ==
    [ fn : {"createTx"},
      decodeOk : BOOLEAN, checkOk : BOOLEAN,
      storeOk : BOOLEAN, storeExpireOk : BOOLEAN,
      panic : {"none", "clientSub", "hostSub"} ]

\* The inputs of CommitRevisionTx: whether each step succeeds.
RevisionTxInputs ==
    [ fn : {"revisionTx"},
      decodeOk : BOOLEAN, checkOk : BOOLEAN, getOk : BOOLEAN,
      storeOk : BOOLEAN, storeExpireOk : BOOLEAN ]

\* The inputs of a run of counterDisrupter.disrupt: the keywords it is
\* called with, in order, and the keywords the wrapped disrupter has a
\* function for.
DisruptInputs ==
    [ fn : {"disrupt"},
      calls : UNION { [1 .. n -> Keywords] : n \in 0 .. MaxDisrupts },
      registered : SUBSET Keywords ]

InitFn ==
    /\ InitShared
    /\ seg = NewSegment([i \in Slots |-> FALSE], FALSE, FALSE)
    /\ workerPool = {}
    /\ pendingSegments = {}
    /\ pc = [t \in Threads |-> "fn"]
    /\ fnIn \in CompleteInputs \cup AssignInputs \cup DispatchInputs
                   \cup CleanupInputs \cup StuckInputs \cup RetrieveInputs
                   \cup IndexInputs \cup BytesInputs \cup PrepareInputs
                   \cup CreateTxInputs \cup RevisionTxInputs \cup DisruptInputs
    /\ fnOut = [fn |-> "none"]
    /\ mm = NoManager

programVars ==
    << seg, workerVars, releaseVars, workerPool, stopped, memReturned, crashed,
       pc, cl, ra, lc, mm >>

ApplyComplete ==
    /\ fnIn.fn = "complete" /\ fnOut.fn = "none"
    /\ fnOut' = [fn |-> "complete", val |-> IsSegmentUploadComplete(fnIn)]
    /\ UNCHANGED << fnIn, programVars >>

ApplyAssign ==
    /\ fnIn.fn = "assign" /\ fnOut.fn = "none"
    /\ fnOut' = [fn |-> "assign",
                 out |-> AssignOutcome(fnIn.s, fnIn.workers, fnIn.i, fnIn.rnd, fnIn.rdy)]
    /\ UNCHANGED << fnIn, programVars >>

ApplyDispatch ==
    /\ fnIn.fn = "dispatch" /\ fnOut.fn = "none"
    /\ fnOut' = [fn |-> "dispatch",
                 pending |-> PendingAdd(fnIn.pending, SegID),
                 snap |-> DispatchSnapshot([workersRemain |-> fnIn.workersRemain],
                                           fnIn.pool)]
    /\ UNCHANGED << fnIn, programVars >>

ApplyCleanup ==
    /\ fnIn.fn = "cleanup" /\ fnOut.fn = "none"
    /\ fnOut' = [fn |-> "cleanup", res |-> CleanupLocked(CleanupSegment(fnIn))]
    /\ UNCHANGED << fnIn, programVars >>

ApplyStuck ==
    /\ fnIn.fn = "stuck" /\ fnOut.fn = "none"
    /\ LET res == StuckUpdate(StuckSegment(fnIn), file, fnIn.offline)
       IN  /\ fnOut' = [fn |-> "stuck", way |-> res.way]
           /\ file' = res.file
    /\ UNCHANGED << fnIn, seg, workerVars, pendingSegments, pendingDeletes, stuckChan,
                    workerPool, stopped, memReturned, crashed, pc, cl, ra, lc, mm >>

ApplyRetrieve ==
    /\ fnIn.fn = "retrieve" /\ fnOut.fn = "none"
    /\ LET way == RetrieveLogicalPath(RetrieveSegment(fnIn), fnIn.hasLocalPath,
                                      fnIn.openOk, fnIn.readOk)
       IN  fnOut' = [fn |-> "retrieve", way |-> way,
                     data |-> RetrieveData(way, fnIn.downloadOk)]
    /\ UNCHANGED << fnIn, programVars >>

ApplyIndex ==
    /\ fnIn.fn = "index" /\ fnOut.fn = "none"
    /\ fnOut' = [fn |-> "index", val |-> WorkerIndex(fnIn.i, fnIn.rnd, fnIn.length)]
    /\ UNCHANGED << fnIn, programVars >>

ApplyBytes ==
    /\ fnIn.fn = "bytes" /\ fnOut.fn = "none"
    /\ fnOut' = [fn |-> "bytes", val |-> SegmentBytes(fnIn.logical)]
    /\ UNCHANGED << fnIn, programVars >>

ApplyPrepare ==
    /\ fnIn.fn = "prepare" /\ fnOut.fn = "none"
    /\ fnOut' = [fn |-> "prepare",
                 res |-> prepareCreateContract(fnIn.hosts, fnIn.contractFund,
                                               fnIn.needed, fnIn.fund)]
    /\ UNCHANGED << fnIn, programVars >>

ApplyCreateTx ==
    /\ fnIn.fn = "createTx" /\ fnOut.fn = "none"
    /\ fnOut' = [fn |-> "createTx", res |-> ContractCreateTx(fnIn)]
    /\ UNCHANGED << fnIn, programVars >>

ApplyRevisionTx ==
    /\ fnIn.fn = "revisionTx" /\ fnOut.fn = "none"
    /\ fnOut' = [fn |-> "revisionTx", res |-> CommitRevisionTx(fnIn)]
    /\ UNCHANGED << fnIn, programVars >>

ApplyDisrupt ==
    /\ fnIn.fn = "disrupt" /\ fnOut.fn = "none"
    /\ fnOut' = [fn |-> "disrupt",
                 res |-> RunDisrupts(fnIn.calls, fnIn.registered,
                                     [counter |-> << >>, rets |-> << >>])]
    /\ UNCHANGED << fnIn, programVars >>

NextFn ==
    \/ ApplyComplete \/ ApplyAssign \/ ApplyDispatch \/ ApplyCleanup \/ ApplyStuck
    \/ ApplyRetrieve \/ ApplyIndex \/ ApplyBytes \/ ApplyPrepare
    \/ ApplyCreateTx \/ ApplyRevisionTx \/ ApplyDisrupt

SpecFn == InitFn /\ [][NextFn]_vars

\* ------------------------------------------------------ the memory manager
\* The memory manager on its own, under any sequence of acquire and return
\* calls: a ceiling (base), the budget available, and the totals of bytes
\* granted and taken back. A request may ask for more than the ceiling.
MemRequests == 1 .. MaxCeiling + 1

NewManager(base) ==
    [base |-> base, available |-> base, granted |-> 0, returned |-> 0, calls |-> 0]

\* acquire(bytes) is granted when the budget covers it; until then the
\* caller waits.
MemTry_Always(m, n) == TRUE

MemTry(m, n) == n <= m.available

MemGrant(m, n) ==
    [m EXCEPT !.available = @ - n, !.granted = @ + n, !.calls = @ + 1]

\* return(bytes) raises the budget; a return of more bytes than are out is
\* ignored.
MemGiveBack(m, n) ==
    IF m.available + n <= m.base
    THEN [m EXCEPT !.available = @ + n, !.returned = @ + n, !.calls = @ + 1]
    ELSE [m EXCEPT !.calls = @ + 1]

memoryVars ==
    << seg, workerVars, releaseVars, workerPool, stopped, fnIn, fnOut, memReturned,
       crashed, pc, cl, ra, lc >>

MemAcquire ==
    /\ mm.base > 0 /\ mm.calls < MaxCalls
    /\ \E n \in MemRequests :
          /\ MemTry(mm, n)
          /\ mm' = MemGrant(mm, n)
    /\ UNCHANGED memoryVars

MemReturn ==
    /\ mm.base > 0 /\ mm.calls < MaxCalls
    /\ \E n \in MemRequests : mm' = MemGiveBack(mm, n)
    /\ UNCHANGED memoryVars

InitMemory ==
    /\ InitShared
    /\ seg = NewSegment([i \in Slots |-> FALSE], FALSE, FALSE)
    /\ workerPool = {}
    /\ pendingSegments = {}
    /\ pc = [t \in Threads |-> "fn"]
    /\ fnIn = [fn |-> "none"]
    /\ fnOut = [fn |-> "none"]
    /\ \E base \in 1 .. MaxCeiling : mm = NewManager(base)

NextMemory == MemAcquire \/ MemReturn

SpecMemory == InitMemory /\ [][NextMemory]_vars

\* ================================================================== claims
\* The workers that hold slot i: it is in their sector-index list or among
\* the sectors they have taken.
Holders(i) ==
    { w \in Workers : i \in SeqToSet(sectorIndexMap[w]) \/ i \in SeqToSet(wwork[w]) }

\* How many times slot i is in the sequence sq, and in the sector-index
\* lists of workers 1 .. w.
RECURSIVE Occurrences(_, _)
Occurrences(sq, i) ==
    IF sq = << >> THEN 0
    ELSE (IF Head(sq) = i THEN 1 ELSE 0) + Occurrences(Tail(sq), i)

RECURSIVE ListedTimes(_, _)
ListedTimes(i, w) ==
    IF w = 0 THEN 0
    ELSE Occurrences(sectorIndexMap[w], i) + ListedTimes(i, w - 1)

\* The threads inside a cleanupUploadSegment call that set the released flag
\* and has the release still to carry out.
ReleaseOwners ==
    { t \in Threads :
        /\ cl[t].complete /\ ~cl[t].rel
        /\ pc[t] \in {"n_swap", "ra_read", "ra_write", "n_signal",
                      "c_stuck", "c_send", "c_close"} }

\* C1: at the moment the released flag of a segment becomes true, its
\* memoryReleased equals its memoryNeeded.
C1_ReleaseConservesMemory ==
    [][(~seg.released /\ seg'.released)
          => seg'.memoryReleased = seg'.memoryNeeded]_vars

\* C2: memoryReleased never decreases and never exceeds memoryNeeded: no
\* byte of the segment's memory is given back twice.
C2_ReleasedMemoryBounded ==
    [][/\ seg'.memoryReleased >= seg.memoryReleased
       /\ seg'.memoryReleased <= seg'.memoryNeeded]_vars

\* At most one cleanup call owns the release or has carried it out, and one
\* does exactly when the released flag is set; the close of the file entry
\* and the deletion from the pending set go together.
ReleaseOwnedOnce ==
    /\ Cardinality(ReleaseOwners) + file.closes <= 1
    /\ pendingDeletes = file.closes
    /\ seg.released <=> (Cardinality(ReleaseOwners) + file.closes = 1)

\* C3: under concurrent cleanup calls on the segment, the released flag
\* goes from false to true at most once (it is never reset) and the call
\* that set it is the only one that carries out the release: the file entry
\* is closed at most once and the id is deleted from the pending set at
\* most once.
C3_ReleasedExactlyOnce ==
    [][(seg.released => seg'.released) /\ ReleaseOwnedOnce']_vars

\* C3 witness: the release has been carried out, once, while another thread
\* is still inside its own cleanup call on the same segment.
C3_Witness ==
    /\ file.closes = 1 /\ pendingDeletes = 1 /\ seg.released
    /\ \E t \in Threads : pc[t] \in {"n_swap", "ra_read", "ra_write", "n_signal"}

\* C4: a cleanup call on a segment whose released flag is already set is a
\* no-op: the locked part changes nothing of the segment (no trimming, no
\* memoryReleased), nothing goes back to the memory manager, and the call
\* goes neither to the backup-worker notification nor to the release.
C4_CleanupOnReleasedIsNoOp ==
    [][\A t \in Threads :
          (seg.released /\ pc[t] = "c_lock" /\ pc'[t] # "c_lock" /\ ~crashed')
             => /\ seg' = seg
                /\ memReturned' = memReturned
                /\ file' = file
                /\ pendingSegments' = pendingSegments
                /\ pc'[t] \in {"done", "idle", "uploading"}]_vars

\* C5: a claimed slot index is held by at most one worker at a time, also
\* when several assignment rounds run concurrently.
C5_SlotHeldByOneWorker ==
    \A i \in Slots : Cardinality(Holders(i)) <= 1

\* C6: IsSegmentUploadComplete returns true exactly when sectorsCompletedNum
\* = sectorsAllNeedNum and sectorsUploadingNum = 0, or workersRemain = 0 and
\* sectorsUploadingNum = 0; it returns false whenever sectorsUploadingNum >= 1.
C6_CompletePredicate ==
    fnOut.fn = "complete" =>
        /\ fnOut.val <=>
              \/ fnIn.sectorsCompletedNum = fnIn.sectorsAllNeedNum
                    /\ fnIn.sectorsUploadingNum = 0
              \/ fnIn.workersRemain = 0 /\ fnIn.sectorsUploadingNum = 0
        /\ fnIn.sectorsUploadingNum >= 1 => ~fnOut.val

\* C6 witness: the predicate has answered true for a segment that is not
\* fully uploaded but has no worker left and no upload in flight.
C6_Witness ==
    /\ fnOut.fn = "complete" /\ fnOut.val
    /\ fnIn.workersRemain = 0 /\ fnIn.sectorsCompletedNum < fnIn.sectorsAllNeedNum

\* C7: a segment that is in the pending set and for which a cleanup call
\* has found the completion predicate true (the released flag is set) is
\* eventually removed from the pending set: it is never left there by a
\* process that has come to its end.
C7_CompletedSegmentNotStranded ==
    (seg.released /\ SegID \in pendingSegments) => ~crashed

\* C8: dispatchSegment leaves the segment id in the pending set, adding it
\* if it was absent and leaving the set as it was if it was present, and
\* increases workersRemain by exactly the size of the worker pool.
C8_DispatchEntry ==
    [][/\ (pc[LifecycleThread] = "dispatch" /\ pc'[LifecycleThread] = "d_assign")
            => /\ SegID \in pendingSegments'
               /\ pendingSegments' \ {SegID} = pendingSegments \ {SegID}
               /\ SegID \in pendingSegments => pendingSegments' = pendingSegments
       /\ (pc[LifecycleThread] = "d_assign" /\ pc'[LifecycleThread] = "ra_read")
            => /\ seg'.workersRemain = seg.workersRemain + Cardinality(workerPool)
               /\ SegID \in pendingSegments']_vars

\* C8 witness: a segment whose id was already pending has been dispatched to
\* a pool of NumWorkers workers and all of them count as remaining.
C8_Witness ==
    /\ pc[LifecycleThread] = "ra_read" /\ ra[LifecycleThread].ret = "d_signal"
    /\ SegID \in pendingSegments
    /\ Cardinality(workerPool) = NumWorkers
    /\ seg.workersRemain = NumWorkers

C10_RoundPostcondition ==
    /\ (pc[LifecycleThread] = "d_signal" /\ lc.scm = 0)
          => \A i \in Slots :
                IF seg.sectorSlotsStatus[i]
                THEN Cardinality(Holders(i)) = 1 /\ ListedTimes(i, NumWorkers) = 1
                ELSE Holders(i) = {} /\ ListedTimes(i, NumWorkers) = 0
    /\ (pc[LifecycleThread] = "ra_write" /\ ra[LifecycleThread].ret = "d_signal")
          => /\ ra[LifecycleThread].pick \in ra[LifecycleThread].ready
             /\ ra[LifecycleThread].pick \in SeqToSet(ra[LifecycleThread].workers)

\* C10 witness: the round of a dispatch on an all-free segment is over with
\* one slot assigned and another left free.
C10_Witness ==
    /\ pc[LifecycleThread] = "d_signal" /\ lc.scm = 0
    /\ \E i \in Slots : seg.sectorSlotsStatus[i] /\ Cardinality(Holders(i)) = 1
    /\ \E i \in Slots : ~seg.sectorSlotsStatus[i]

\* The notifyBackupWorkers calls that hold worker w in the list they swapped
\* out and have not yet signalled.
NotifyRounds(w) ==
    { t \in Threads :
        /\ pc[t] \in {"ra_read", "ra_write", "n_signal"}
        /\ ra[t].ret = "n_signal"
        /\ w \in SeqToSet(ra[t].workers) }

\* C11: a worker that has been assigned a sector by dispatchSegment or
\* notifyBackupWorkers is signalled after the assignment is written: at any
\* moment a worker with sectors in its index list either has the signal in
\* its upload channel or belongs to a round that is still running and will
\* signal it.
C11_AssignedWorkerSignalled ==
    \A w \in Workers : sectorIndexMap[w] # << >> =>
        \/ uploadChan[w]
        \/ /\ ~crashed
           /\ \E t \in Threads :
                 /\ pc[t] \in {"ra_read", "ra_write", "d_signal", "n_signal"}
                 /\ w \in SeqToSet(ra[t].workers)

\* C12: for any interleaving of concurrent notifyBackupWorkers calls each
\* registered backup worker is handed to exactly one call (it is never in
\* the lists of two calls, nor in a call's list and the segment's backup
\* list) and is signalled by it: a call that holds workers gets to its
\* signals.
C12_BackupHandedOnceAndSignalled ==
    /\ \A w \in Workers :
          Cardinality(NotifyRounds(w))
             + (IF w \in SeqToSet(seg.workerBackups) THEN 1 ELSE 0) <= 1
    /\ \A w \in Workers : NotifyRounds(w) # {} => ~crashed

\* The free slots of a slot status, and how many free slots lie below i.
FreeSlots(slots) == { i \in Slots : ~slots[i] }

FreeBelow(slots, i) == Cardinality({ j \in FreeSlots(slots) : j < i })

Min(a, b) == IF a <= b THEN a ELSE b

\* C13: after the locked phase of cleanupUploadSegment the number of free
\* slots is min(free slots before, workersRemain); the free slots kept are
\* the lowest-indexed ones; every other slot that was free is marked used,
\* has its physical sector cleared and adds one sector size to
\* memoryReleased; nothing else changes in the slots and the sectors.
C13_TrimKeepsLowestFreeSlots ==
    (fnOut.fn = "cleanup" /\ ~fnOut.res.panic) =>
        LET before == FreeSlots(fnIn.slots)
            after == FreeSlots(fnOut.res.uc.sectorSlotsStatus)
            keep == Min(Cardinality(before), fnIn.workersRemain)
            old == CleanupSegment(fnIn)
            new == fnOut.res.uc
        IN  /\ Cardinality(after) = keep
            /\ after \subseteq before
            /\ \A i \in before : i \in after <=> FreeBelow(fnIn.slots, i) < keep
            /\ \A i \in before \ after : new.physicalSegmentData[i + 1] = "nil"
            /\ \A i \in Slots \ (before \ after) :
                  i + 1 <= Len(old.physicalSegmentData)
                     => new.physicalSegmentData[i + 1] = old.physicalSegmentData[i + 1]
            /\ Len(new.physicalSegmentData) = Len(old.physicalSegmentData)
            /\ fnOut.res.memoryReleased = SectorSize * Cardinality(before \ after)
            /\ new.memoryReleased = old.memoryReleased + fnOut.res.memoryReleased
            /\ fnOut.res.sectorsAvailable = keep

\* C13 witness: of two free slots with one worker remaining the first is
\* kept and the second is trimmed.
C13_Witness ==
    /\ fnOut.fn = "cleanup" /\ ~fnOut.res.panic
    /\ Cardinality(FreeSlots(fnIn.slots)) = 2 /\ fnIn.workersRemain = 1
    /\ FreeSlots(fnOut.res.uc.sectorSlotsStatus) = {0}
    /\ fnOut.res.memoryReleased = SectorSize

\* C14: a cleanupUploadSegment call goes on to notifyBackupWorkers exactly
\* when a free slot remains after the trimming, and the notification is no
\* part of the locked section: the step that runs the locked section leaves
\* the backup list, the workers' sector lists and their upload signals
\* alone, and a notification starts from the end of a locked section only.
C14_NotifyAfterUnlockIfSlotsFree ==
    [][\A t \in Threads :
          /\ (pc[t] = "c_lock" /\ pc'[t] # "c_lock" /\ ~crashed') =>
                /\ pc'[t] = "n_swap" <=> FreeSlots(seg'.sectorSlotsStatus) # {}
                /\ seg'.workerBackups = seg.workerBackups
                /\ uploadChan' = uploadChan
                /\ sectorIndexMap' = sectorIndexMap
          /\ (pc'[t] = "n_swap" /\ pc[t] # "n_swap") => pc[t] = "c_lock"]_vars

\* C14 witness: a call that trimmed a sector and still found a free slot is
\* about to notify the backup workers.
C14_Witness ==
    \E t \in Threads :
        /\ pc[t] = "n_swap" /\ cl[t].mem > 0
        /\ FreeSlots(seg.sectorSlotsStatus) # {}

\* The completed count is below (1 - threshold) * total.
BelowThreshold(total, completed) ==
    ThresholdDen * completed < (ThresholdDen - ThresholdNum) * total

\* C15 as stated: after updateUploadSegmentStuckStatus the file's stuck flag
\* is true if completedCount < (1 - threshold) * totalSectors and false
\* otherwise.
C15_StuckFlagAlwaysSet ==
    fnOut.fn = "stuck" =>
        file.stuck = IF BelowThreshold(fnIn.need, fnIn.completed) THEN "yes" ELSE "no"

\* C15 amended: the flag is set to true below the threshold and to false
\* otherwise, except that below the threshold with the client offline or
\* shut down the function returns without touching the file.
C15_StuckFlagSetUnlessOfflineFailure ==
    fnOut.fn = "stuck" =>
        IF BelowThreshold(fnIn.need, fnIn.completed) /\ fnIn.offline
        THEN /\ fnOut.way = "return"
             /\ file = [closes |-> 0, stuck |-> "unset", dirUpdates |-> 0]
        ELSE /\ fnOut.way # "return"
             /\ file.stuck = IF BelowThreshold(fnIn.need, fnIn.completed)
                             THEN "yes" ELSE "no"

\* C15 witness: 8 of 10 sectors completed with the client online marks the
\* file stuck.
C15_Witness ==
    /\ fnOut.fn = "stuck" /\ fnIn.need = 10 /\ fnIn.completed = 8
    /\ ~fnIn.offline /\ file.stuck = "yes"

\* The segment was stuck, was repaired by the stuck loop, and the repair
\* was successful.
StuckRepairSucceeded ==
    /\ seg.stuck /\ seg.stuckRepair
    /\ ~BelowThreshold(seg.sectorsAllNeedNum, seg.sectorsCompletedNum)

\* Thread t leaves updateUploadSegmentStuckStatus in this step.
StuckStatusReturns(t) ==
    pc[t] \in {"c_stuck", "c_send"} /\ pc'[t] = "c_close"

\* C16 as stated: a call of updateUploadSegmentStuckStatus sends on the
\* stuck-segment-success channel if and only if the segment was stuck, was
\* repaired by the stuck loop and the repair was successful.
C16_SendIffStuckRepairSucceeded ==
    [][\A t \in Threads :
          StuckStatusReturns(t) =>
             ((pc[t] = "c_send" /\ stuckChan' = stuckChan + 1) <=> StuckRepairSucceeded)]_vars

\* C16 amended: a send happens only for a stuck segment successfully
\* repaired by the stuck loop, one send per call; for such a segment the
\* call returns without having sent only when the shutdown signal is raised.
C16_SendOnlyIfStuckRepairSucceeded ==
    [][/\ \A t \in Threads :
             StuckStatusReturns(t) =>
                /\ (pc[t] = "c_send" /\ stuckChan' = stuckChan + 1) => StuckRepairSucceeded
                /\ (StuckRepairSucceeded /\ stuckChan' = stuckChan) => stopped
       /\ stuckChan' # stuckChan =>
             /\ stuckChan' = stuckChan + 1
             /\ \E t \in Threads : pc[t] = "c_send" /\ pc'[t] = "c_close"]_vars

\* C16 witness: the success signal of a stuck segment repaired by the stuck
\* loop has been sent.
C16_Witness ==
    /\ stuckChan = 1
    /\ StuckRepairSucceeded

\* C17: once shutdown is raised, a call that waits to send the stuck-repair
\* success returns and its cleanup finishes the release (close of the file
\* entry, delete from the pending set). A finite run refutes this when the
\* process has crashed while such a call is still waiting at the send:
\* checked as the absence of that state.
C17_StoppedSendReturns ==
    (stopped /\ \E t \in Threads : pc[t] = "c_send") => ~crashed

\* C18: once the retrieval of the logical data has failed, workersRemain
\* is 0, the segment is not in the pending set, no worker holds a sector
\* slot of it or has been signalled, the lifecycle controller is in its
\* cleanup or done (no second retrieval, no dispatch), and as soon as the
\* locked part of that cleanup has run the segment is released.
C18_RetrievalFailureAborts ==
    lc.err = "retrieve" =>
        /\ ~crashed
        /\ seg.workersRemain = 0
        /\ pendingSegments = {}
        /\ \A w \in Workers :
              /\ sectorIndexMap[w] = << >> /\ wwork[w] = << >>
              /\ ~uploadChan[w] /\ pc[w] = "idle"
        /\ seg.workerBackups = << >>
        /\ pc[LifecycleThread] \in {"c_lock", "c_stuck", "c_send", "c_close", "done"}
        /\ pc[LifecycleThread] # "c_lock" => seg.released

\* C18 witness: an invocation whose retrieval failed has ended with the
\* segment released.
C18_Witness ==
    /\ lc.err = "retrieve"
    /\ pc[LifecycleThread] = "done"
    /\ seg.released

\* C19: the step in which the erasure encoding fails ends the attempt as a
\* retrieval failure does: workersRemain is 0, the controller goes to its
\* cleanup without dispatching, the logical data is cleared, and the
\* erasure-coding memory plus the memory of the already-claimed sectors is
\* returned to the memory manager and added to memoryReleased.
C19_EncodeFailureAbortsLikeRetrieval ==
    [][(lc.err = "none" /\ lc'.err = "encode") =>
          /\ seg'.workersRemain = 0
          /\ pc'[LifecycleThread] = "c_lock"
          /\ seg'.logicalSegmentData = "nil"
          /\ memReturned' = memReturned + lc.ecm + lc.scm
          /\ seg'.memoryReleased = seg.memoryReleased + lc.ecm + lc.scm]_vars

\* C20: the encryption step never aborts the segment. Whatever subset of
\* the free slots fails to encrypt, the step ends with the segment handed
\* to dispatchSegment, the slot status unchanged (a failed slot stays free),
\* every free slot outside the subset holding its cipher text and every
\* failed slot holding the unencrypted sector it held before.
C20_EncryptionFailureNotFatal ==
    [][(pc[LifecycleThread] = "encrypt" /\ pc'[LifecycleThread] # "encrypt") =>
          /\ pc'[LifecycleThread] = "dispatch"
          /\ ~crashed'
          /\ seg'.sectorSlotsStatus = seg.sectorSlotsStatus
          /\ seg'.workersRemain = seg.workersRemain
          /\ Len(seg'.physicalSegmentData) = Len(seg.physicalSegmentData)
          /\ \E failed \in SUBSET FreeSlots(seg.sectorSlotsStatus) :
                \A i \in Slots :
                   seg'.physicalSegmentData[i + 1] =
                      IF seg.sectorSlotsStatus[i] THEN "nil"
                      ELSE IF i \in failed THEN seg.physicalSegmentData[i + 1]
                      ELSE "cipher"
          /\ \A i \in FreeSlots(seg.sectorSlotsStatus) :
                seg.physicalSegmentData[i + 1] = "plain"]_vars

\* C20 witness: the segment is at dispatch with one free slot whose
\* encryption failed (still plain) and one free slot encrypted.
C20_Witness ==
    /\ pc[LifecycleThread] = "dispatch"
    /\ \E i, j \in FreeSlots(seg.sectorSlotsStatus) :
          /\ seg.physicalSegmentData[i + 1] = "plain"
          /\ seg.physicalSegmentData[j + 1] = "cipher"

\* C21: a download wait that sees the shutdown signal raised ends: the
\* controller leaves the wait even if the download never completes. While
\* it waits the logical data is unset, and a wait ended under shutdown
\* without data leaves the data unset and takes the retrieval-failure
\* branch (workersRemain 0, the reserved memory returned, on to cleanup).
C21_DownloadObservesShutdown ==
    /\ [](pc[LifecycleThread] = "download" => (seg.logicalSegmentData = "nil" /\ ~crashed))
    /\ [][(/\ pc[LifecycleThread] = "download" /\ stopped
           /\ pc'[LifecycleThread] # "download"
           /\ seg'.logicalSegmentData = "nil") =>
              /\ lc'.err = "retrieve"
              /\ pc'[LifecycleThread] = "c_lock"
              /\ seg'.workersRemain = 0
              /\ memReturned' = memReturned + lc.ecm + lc.scm]_vars
    /\ (pc[LifecycleThread] = "download" /\ stopped) ~> (pc[LifecycleThread] # "download")

\* C21 witness: shutdown was raised during the download wait (it is not
\* observed between admission and the wait) and the attempt has taken the
\* retrieval-failure branch with the logical data unset.
C21_Witness ==
    /\ stopped /\ lc.err = "retrieve"
    /\ pc[LifecycleThread] = "c_lock"
    /\ seg.logicalSegmentData = "nil"

\* ------------------------------------------------------------ lock regions
\* What the code between two positions of a thread does with the locks, in
\* program order: Lock/Unlock of the segment lock (uc.mu), the worker-pool
\* lock (sc.lock), the pending-set lock (sc.uploadHeap.mu) and the lock the
\* memory manager takes inside Return; "write" stands for the writes of the
\* segment's lock-protected fields made at that place, "assign" for the
\* entry into randomAssignSectorTaskToWorker's claim of a slot, "signal" for
\* the signalUploadChan calls.
Ev(op, arg) == [op |-> op, arg |-> arg]

ProcessLocks == {"memory", "pending", "pool"}

ProtectedFields ==
    {"sectorSlotsStatus", "workersRemain", "memoryReleased", "released", "workerBackups"}

ReturnEvents == << Ev("lock", "memory"), Ev("unlock", "memory") >>

\* The error branches and the success path of retrieveDataAndDispatchSegment
\* write workersRemain and memoryReleased around the Return.
AbortEvents == << Ev("write", "seg") >> \o ReturnEvents \o << Ev("write", "seg") >>

\* The round run by dispatchSegment ends with sc.lock.Unlock().
RoundEndEvents(to, ret) ==
    IF to = "d_signal" /\ ret = "d_signal" THEN << Ev("unlock", "pool") >> ELSE << >>

StepEvents_SignalUnderPoolLock(from, to, ret) ==
    CASE from \in {"retrieve", "download", "encode"} -> AbortEvents
      [] from = "encrypt" -> ReturnEvents \o << Ev("write", "seg") >>
      [] from = "dispatch" -> << Ev("lock", "pending"), Ev("unlock", "pending") >>
      [] from = "d_assign" -> << Ev("lock", "pool"), Ev("write", "seg") >>
      [] from = "ra_read" -> << >>
      [] from = "ra_write" -> << Ev("call", "assign"), Ev("write", "seg") >>
      [] from = "d_signal" -> << Ev("call", "signal"), Ev("unlock", "pool") >>
      [] from = "c_lock" ->
            << Ev("lock", "seg"), Ev("write", "seg"), Ev("unlock", "seg") >>
               \o (IF to = "n_swap" THEN << >> ELSE ReturnEvents)
      [] from = "n_swap" ->
            << Ev("lock", "seg"), Ev("write", "seg"), Ev("unlock", "seg") >>
      [] from = "n_signal" -> << Ev("call", "signal") >> \o ReturnEvents
      [] from = "c_stuck" -> << Ev("lock", "seg"), Ev("unlock", "seg") >>
      [] from = "c_close" -> << Ev("lock", "pending"), Ev("unlock", "pending") >>
      [] from \in {"idle", "uploading"} ->
            << Ev("lock", "seg"), Ev("write", "seg"), Ev("unlock", "seg") >>
      [] OTHER -> << >>

StepEvents_PendingHeldIntoPool(from, to, ret) ==
    CASE from \in {"retrieve", "download", "encode"} -> AbortEvents
      [] from = "encrypt" -> ReturnEvents \o << Ev("write", "seg") >>
      [] from = "dispatch" -> << >>
      [] from = "d_assign" ->
            << Ev("lock", "pending"), Ev("lock", "pool"), Ev("unlock", "pending"),
               Ev("write", "seg") >>
      [] from = "ra_read" -> RoundEndEvents(to, ret)
      [] from = "ra_write" ->
            << Ev("call", "assign"), Ev("write", "seg") >> \o RoundEndEvents(to, ret)
      [] from = "d_signal" -> << Ev("call", "signal") >>
      [] from = "c_lock" ->
            << Ev("lock", "seg"), Ev("write", "seg"), Ev("unlock", "seg") >>
               \o (IF to = "n_swap" THEN << >> ELSE ReturnEvents)
      [] from = "n_swap" ->
            << Ev("lock", "seg"), Ev("write", "seg"), Ev("unlock", "seg") >>
      [] from = "n_signal" -> << Ev("call", "signal") >> \o ReturnEvents
      [] from = "c_stuck" -> << Ev("lock", "seg"), Ev("unlock", "seg") >>
      [] from = "c_close" -> << Ev("lock", "pending"), Ev("unlock", "pending") >>
      [] from \in {"idle", "uploading"} ->
            << Ev("lock", "seg"), Ev("write", "seg"), Ev("unlock", "seg") >>
      [] OTHER -> << >>

StepEvents(from, to, ret) ==
    CASE from \in {"retrieve", "download", "encode"} -> AbortEvents
      [] from = "encrypt" -> ReturnEvents \o << Ev("write", "seg") >>
      [] from = "dispatch" -> << Ev("lock", "pending"), Ev("unlock", "pending") >>
      [] from = "d_assign" -> << Ev("lock", "pool"), Ev("write", "seg") >>
      [] from = "ra_read" -> RoundEndEvents(to, ret)
      [] from = "ra_write" ->
            << Ev("call", "assign"), Ev("write", "seg") >> \o RoundEndEvents(to, ret)
      [] from = "d_signal" -> << Ev("call", "signal") >>
      [] from = "c_lock" ->
            << Ev("lock", "seg"), Ev("write", "seg"), Ev("unlock", "seg") >>
               \o (IF to = "n_swap" THEN << >> ELSE ReturnEvents)
      [] from = "n_swap" ->
            << Ev("lock", "seg"), Ev("write", "seg"), Ev("unlock", "seg") >>
      [] from = "n_signal" -> << Ev("call", "signal") >> \o ReturnEvents
      [] from = "c_stuck" -> << Ev("lock", "seg"), Ev("unlock", "seg") >>
      [] from = "c_close" -> << Ev("lock", "pending"), Ev("unlock", "pending") >>
      [] from \in {"idle", "uploading"} ->
            << Ev("lock", "seg"), Ev("write", "seg"), Ev("unlock", "seg") >>
      [] OTHER -> << >>

\* The locks a thread holds when it stands at a position: the rounds of
\* dispatchSegment run under the worker-pool lock, every other position is
\* outside all lock regions.
HeldAt(label, ret) ==
    IF label \in {"ra_read", "ra_write"} /\ ret = "d_signal" THEN {"pool"} ELSE {}

\* The events run from a set of held locks. acc.most is the largest number
\* of process-wide locks held at once, acc.sound is FALSE after a Lock of a
\* lock already held or an Unlock of one not held, acc.callsFree is FALSE
\* after an assignment or a signal made with the segment lock held or a
\* signal made with the worker-pool lock held, acc.writesLocked is FALSE
\* after a write made without the segment lock.
RECURSIVE RunEvents(_, _)
RunEvents(acc, evs) ==
    IF evs = << >> THEN acc
    ELSE LET e == Head(evs)
             next ==
                CASE e.op = "lock" ->
                        [acc EXCEPT !.held = @ \cup {e.arg},
                                    !.sound = @ /\ e.arg \notin acc.held,
                                    !.most = IF Cardinality((acc.held \cup {e.arg}) \cap ProcessLocks) > @
                                             THEN Cardinality((acc.held \cup {e.arg}) \cap ProcessLocks)
                                             ELSE @]
                  [] e.op = "unlock" ->
                        [acc EXCEPT !.held = @ \ {e.arg},
                                    !.sound = @ /\ e.arg \in acc.held]
                  [] e.op = "call" ->
                        [acc EXCEPT !.callsFree =
                            /\ @
                            /\ "seg" \notin acc.held
                            /\ (e.arg = "signal" => "pool" \notin acc.held)]
                  [] OTHER ->
                        [acc EXCEPT !.writesLocked = @ /\ "seg" \in acc.held]
         IN  RunEvents(next, Tail(evs))

StartOfRun(held) ==
    [ held |-> held, most |-> Cardinality(held \cap ProcessLocks),
      sound |-> TRUE, callsFree |-> TRUE, writesLocked |-> TRUE ]

\* What the step of thread t did with the locks.
StepRun(t) ==
    RunEvents(StartOfRun(HeldAt(pc[t], ra[t].ret)),
              StepEvents(pc[t], pc'[t], ra[t].ret))

\* Thread t took this step.
Moved(t) == pc'[t] # pc[t] \/ ra'[t] # ra[t] \/ cl'[t] # cl[t]

\* The lock regions fit the positions: every step starts and ends with the
\* locks its positions are held under, and locks and unlocks pair up.
LockRegionsFit(t) ==
    /\ StepRun(t).sound
    /\ StepRun(t).held = HeldAt(pc'[t], ra'[t].ret)

C23_SignalAndAssignOutsideLocks ==
    [][\A t \in Threads :
          Moved(t) =>
             /\ LockRegionsFit(t)
             /\ StepRun(t).callsFree
             /\ pc[t] \in {"ra_read", "ra_write", "d_signal", "n_signal"}
                   => "seg" \notin HeldAt(pc[t], ra[t].ret)
             /\ pc[t] \in {"d_signal", "n_signal"} => HeldAt(pc[t], ra[t].ret) = {}]_vars

\* C23 witness: a notifyBackupWorkers call has swapped out a non-empty
\* backup list, run its round and stands before its signals.
C23_Witness ==
    \E t \in Threads :
        /\ pc[t] = "n_signal"
        /\ ra[t].workers # << >>
        /\ HeldAt(pc[t], ra[t].ret) = {}

\* C24: every step that changes one of the segment's lock-protected fields
\* (sectorSlotsStatus, workersRemain, memoryReleased, released,
\* workerBackups) makes its writes while the thread holds the segment lock.
C24_ProtectedWritesUnderSegmentLock ==
    [][(\E f \in ProtectedFields : seg'[f] # seg[f]) =>
          \A t \in Threads : Moved(t) => StepRun(t).writesLocked]_vars

\* The local file is absent: no local path, or the file cannot be opened.
LocalFileAbsent == ~fnIn.hasLocalPath \/ ~fnIn.openOk

LocalFileReadable == fnIn.hasLocalPath /\ fnIn.openOk /\ fnIn.readOk

\* Enough sectors are missing for a repair download: the completed sectors
\* plus a tenth (rounded down) of the redundant ones are fewer than all.
WorthDownload ==
    fnIn.completed + ((fnIn.need - MinSectors) \div 10) < fnIn.need

C26_NoCrash == ~crashed

\* C27: under every sequence of acquire and return calls the bytes granted
\* and not yet returned never exceed the manager's ceiling, and the budget
\* available is the ceiling less those bytes.
C27_OutstandingWithinCeiling ==
    mm.base > 0 =>
        /\ mm.granted - mm.returned <= mm.base
        /\ mm.granted - mm.returned >= 0
        /\ mm.available = mm.base - (mm.granted - mm.returned)

\* C27 witness: the whole budget is out, after a grant, a return and
\* another grant.
C27_Witness ==
    /\ mm.base > 0 /\ mm.available = 0
    /\ mm.returned > 0
    /\ mm.granted - mm.returned = mm.base

\* C28: a call that finds the task manager closed at admission is rejected
\* and changes nothing: the step of the rejection and every step after it
\* leave the segment, the workers, the pending set, the file entry and the
\* memory returned as they were, and the call goes nowhere else (no
\* retrieval, encoding, encryption, dispatch or cleanup).
C28_RejectedCallChangesNothing ==
    [][((pc[LifecycleThread] = "admit" /\ stopped) \/ pc[LifecycleThread] = "rejected") =>
          /\ pc'[LifecycleThread] \in {pc[LifecycleThread], "rejected"}
          /\ UNCHANGED << seg, workerVars, releaseVars, memReturned, lc, cl, ra,
                          crashed, stopped >>]_vars

\* C28 witness: the call has been rejected after shutdown, the segment as
\* constructed and nothing returned.
C28_Witness ==
    /\ pc[LifecycleThread] = "rejected" /\ stopped
    /\ seg = NewSegment(seg.sectorSlotsStatus, seg.stuck, seg.stuckRepair)
    /\ memReturned = 0

\* C29: when retrieval, encoding and every encryption have succeeded and
\* the segment stands before dispatchSegment, each slot claimed at entry has
\* no physical sector, each free slot holds its cipher text, the logical
\* data is cleared, and the memory returned is the erasure-coding memory
\* (sector size x minimum sectors) plus one sector size per slot claimed at
\* entry, no more and no less, which is also what memoryReleased counts.
C29_SuccessPathBeforeDispatch ==
    (pc[LifecycleThread] = "dispatch" /\ lc.err = "none") =>
        LET claimed == Slots \ FreeSlots(seg.sectorSlotsStatus)
        IN  /\ \A i \in claimed : seg.physicalSegmentData[i + 1] = "nil"
            /\ \A i \in FreeSlots(seg.sectorSlotsStatus) :
                  seg.physicalSegmentData[i + 1] = "cipher"
            /\ seg.logicalSegmentData = "nil"
            /\ memReturned =
                  FileSectorSize * MinSectors + SectorSize * Cardinality(claimed)
            /\ seg.memoryReleased = memReturned
            /\ ~crashed

\* C29 witness: before dispatch with one slot claimed at entry and one
\* free slot encrypted.
C29_Witness ==
    /\ pc[LifecycleThread] = "dispatch" /\ lc.err = "none"
    /\ \E i, j \in Slots :
          /\ seg.sectorSlotsStatus[i] /\ seg.physicalSegmentData[i + 1] = "nil"
          /\ ~seg.sectorSlotsStatus[j] /\ seg.physicalSegmentData[j + 1] = "cipher"
    /\ memReturned = FileSectorSize * MinSectors + SectorSize

\* No lifecycle or cleanup operation on the segment is in progress.
Quiescent ==
    \A t \in Threads : pc[t] \in {"admit", "rejected", "done", "idle", "uploading"}

\* The cleanup calls that have added their trimmed memory to memoryReleased
\* and not yet returned it: they stand in notifyBackupWorkers.
ReturnPending ==
    { t \in Threads : pc[t] \in {"n_swap", "ra_read", "ra_write", "n_signal"}
                      /\ ra[t].ret # "d_signal" }

RECURSIVE SumPending(_)
SumPending(ts) ==
    IF ts = {} THEN 0
    ELSE LET t == CHOOSE x \in ts : TRUE
         IN  cl[t].mem + SumPending(ts \ {t})

\* The slots the step has trimmed or claimed: free before, used after.
SlotsTaken ==
    { i \in Slots : ~seg.sectorSlotsStatus[i] /\ seg'.sectorSlotsStatus[i] }

\* C30: memoryReleased and the bytes returned to the memory manager move
\* together. Outside the lifecycle controller's run every byte counted in
\* memoryReleased has been returned, except what a cleanup call has counted
\* under the lock and returns after its notification; with no operation in
\* progress the two are equal; the locked part of a cleanup counts one
\* sector size per slot it trims and that call returns exactly this amount.
C30_ReleasedMatchesReturned ==
    /\ [](Quiescent => seg.memoryReleased = memReturned)
    /\ [](seg.memoryReleased = memReturned + SumPending(ReturnPending))
    /\ [][\A t \in Threads :
             /\ (pc[t] = "c_lock" /\ pc'[t] # "c_lock") =>
                   /\ seg'.memoryReleased - seg.memoryReleased
                         = SectorSize * Cardinality(SlotsTaken)
                   /\ IF pc'[t] = "n_swap"
                      THEN /\ cl'[t].mem = SectorSize * Cardinality(SlotsTaken)
                           /\ memReturned' = memReturned
                      ELSE memReturned' - memReturned
                              = SectorSize * Cardinality(SlotsTaken)
             /\ (pc[t] = "n_signal" /\ pc'[t] # "n_signal") =>
                   /\ memReturned' = memReturned + cl[t].mem
                   /\ seg'.memoryReleased = seg.memoryReleased]_vars

\* C30 witness: a cleanup call has trimmed a slot, notified the backup
\* workers and returned the sector; nothing is in progress.
C30_Witness ==
    /\ Quiescent /\ pc[LifecycleThread] = "done"
    /\ memReturned > FileSectorSize * MinSectors
    /\ seg.memoryReleased = memReturned
    /\ \E w \in Workers : wstate[w] # "fresh"

\* C31: an assignment round over an empty worker list (the backup list of
\* notifyBackupWorkers or the pool snapshot of dispatchSegment) claims no
\* slot and completes normally: a round that stands at its loop with no
\* workers has not ended the process.
C31_EmptyRoundIsNoOp ==
    \A t \in Threads :
        (pc[t] = "ra_read" /\ ra[t].workers = << >>) => ~crashed

\* C32: the worker index (i + rand.Int()) % length computed for a non-empty
\* worker list lies in 0 .. length - 1, for every slot index and every
\* non-negative machine integer the random source returns, the values for
\* which the sum wraps around included.
C32_WorkerIndexInRange ==
    fnOut.fn = "index" => fnOut.val \in 0 .. (fnIn.length - 1)

\* C33: a slot handed to a worker is never trimmed by cleanup: every sector
\* index standing in a worker's sector-index list refers to a slot whose
\* physical sector is still there, under every interleaving of assignment
\* rounds and cleanup calls.
C33_AssignedSlotKeepsData ==
    \A w \in Workers : \A k \in 1 .. Len(sectorIndexMap[w]) :
        seg.physicalSegmentData[sectorIndexMap[w][k] + 1] # "nil"

\* The plaintext of the segment: its logical sectors one after the other.
RECURSIVE Plaintext(_)
Plaintext(sectors) ==
    IF sectors = << >> THEN << >>
    ELSE Head(sectors) \o Plaintext(Tail(sectors))

\* C34: the bytes handed to the erasure coder are exactly the logical
\* sectors of the segment concatenated in order, nothing before them and
\* nothing after.
C34_EncoderGetsPlaintext ==
    fnOut.fn = "bytes" => fnOut.val = Plaintext(fnIn.logical)

C36_OfflineFailureTouchesNothing ==
    (fnOut.fn = "stuck" /\ fnIn.offline
        /\ BelowThreshold(fnIn.need, fnIn.completed)) =>
        /\ file.stuck = "unset"
        /\ file.dirUpdates = 0
        /\ fnOut.way = "return"

\* C36 witness: a stuck segment under repair by the stuck loop ends with 8
\* of 10 sectors while the client is offline; the file is untouched.
C36_Witness ==
    /\ fnOut.fn = "stuck" /\ fnIn.offline
    /\ fnIn.need = 10 /\ fnIn.completed = 8
    /\ fnIn.stuck /\ fnIn.stuckRepair
    /\ fnOut.way = "return" /\ file.stuck = "unset" /\ file.dirUpdates = 0

\* C37: a failed contract formation with one host is not an error of
\* prepareCreateContract and does not end it: the call completes normally
\* (no panic), the client's remaining fund has gone down by one contract
\* fund per contract formed and by nothing for a failed host, and the
\* contracts still needed have gone down only by the contracts formed.
C37_FailedHostIsSkipped ==
    fnOut.fn = "prepare" =>
        /\ ~fnOut.res.panic
        /\ fnOut.res.fund = fnIn.fund - fnIn.contractFund * fnOut.res.formed
        /\ fnOut.res.needed >= fnIn.needed - fnOut.res.formed

\* A step of the transaction under test has failed or panicked.
CreateTxWentWrong ==
    \/ ~fnIn.decodeOk \/ ~fnIn.checkOk \/ ~fnIn.storeOk \/ ~fnIn.storeExpireOk
    \/ fnIn.panic # "none"

\* C38: when a step of ContractCreateTx fails or the execution panics, a
\* non-nil error is returned, the state DB is as at the snapshot (no
\* balance deducted) and neither the storage contract nor its expiry
\* record is left in the local DB.
C38_CreateTxAllOrNothing ==
    (fnOut.fn = "createTx" /\ CreateTxWentWrong) =>
        /\ fnOut.res.err # "nil"
        /\ fnOut.res.subs = 0
        /\ ~fnOut.res.contract /\ ~fnOut.res.expire

\* C39: CommitRevisionTx returns a non-nil error whenever one of its steps
\* fails, and reports success only with both the revised contract and its
\* expiry record written.
C39_RevisionTxReportsFailure ==
    fnOut.fn = "revisionTx" =>
        /\ (~fnIn.decodeOk \/ ~fnIn.checkOk \/ ~fnIn.getOk \/ ~fnIn.storeOk
               \/ ~fnIn.storeExpireOk) => fnOut.res.err # "nil"
        /\ fnOut.res.err = "nil" => (fnOut.res.contract /\ fnOut.res.expire)

\* The count the counterDisrupter holds for keyword s (0 when s is not in
\* the map).
CountOf(s) ==
    IF s \in DOMAIN fnOut.res.counter THEN fnOut.res.counter[s] ELSE 0

\* C40: after any number of calls of counterDisrupter.disrupt the count of
\* each keyword is the number of calls made with it, and every call has
\* returned what the wrapped disrupter returns for its keyword.
C40_CounterCountsCalls ==
    fnOut.fn = "disrupt" =>
        /\ \A s \in Keywords : CountOf(s) = Occurrences(fnIn.calls, s)
        /\ Len(fnOut.res.rets) = Len(fnIn.calls)
        /\ \A k \in 1 .. Len(fnIn.calls) :
              fnOut.res.rets[k] = StandardDisrupt(fnIn.registered, fnIn.calls[k])

====
